---------------------------- MODULE Spec2Model ----------------------------
(***************************************************************************)
(* Model of the scoring and aggregation engine of analysis20250722.py      *)
(* (class CustomsAnalyzer and the analysis run of main).                   *)
(*                                                                         *)
(* Conventions                                                             *)
(*  - A DataFrame is a sequence of rows; a row is a record with one field  *)
(*    per source column.  The source's column names are Korean; the model  *)
(*    writes them in ASCII (see ColumnNames below).                        *)
(*  - A nullable cell is a sequence of length <= 1: NULL == << >> is       *)
(*    NaN/None/NaT, <<v>> is the value v.                                  *)
(*  - Text that the code inspects character by character (date strings,    *)
(*    the exemption code) is a sequence of one-character strings.          *)
(*  - Weights and scores are fixed-point numbers in tenths (1.0 is 10).    *)
(*    A mean is kept exact as a fraction [num, den].                       *)
(***************************************************************************)
EXTENDS Integers, Sequences, FiniteSets, TLC

(***************************************************************************)
(* Bounds of the model.                                                    *)
(***************************************************************************)
MaxRows == 3
MaxDateRows == 2
MaxClasses == 3
MaxLineRows == 3
MaxRollupRows == 3
MaxEntityClasses == 3
MaxEntityRows == 2
MaxCsRows == 3
MaxCsKinds == 4
MaxPruneRows == 2
MaxRunRows == 2
MaxUpdates == 2
MaxOrderRows == 1
MaxCalls == 3

(***************************************************************************)
(* Program constants.                                                      *)
(***************************************************************************)
DeclCap == 5000
AuthorCap == 50
ImporterCap == 100
ForwarderCap == 50
PruneThreshold == 20000

NULL == << >>
Some(v) == <<v>>

\* pd.isna / Series.notna on one cell
NotNa(v) == v # NULL

\* Series.fillna(d) on one cell, giving the bare value
FillNa(v, d) == IF v = NULL THEN d ELSE v[1]

(***************************************************************************)
(* Column names.  ASCII name : source column                              *)
(*   decl_no : sin-go-beon-ho (declaration number)                         *)
(*   author : jak-seong-ja, importer : nap-se-ja-sang-ho,                  *)
(*   forwarder : un-song-ju-seon-in-sang-ho,                               *)
(*   trader : mu-yeok-geo-rae-cheo-sang-ho,                                *)
(*   lanes : chong-ran-su, specs : chong-gyu-gyeok-su,                     *)
(*   exemption : gwan-se-gam-myeon-gu-bun, fta : won-san-ji-jeung-myeong-  *)
(*   yu-mu, txn : geo-rae-gu-bun, doc_name : bal-geup-seo-ryu-myeong,      *)
(*   doc_name_sp : "bal-geup seo-ryu-myeong" (with a space),               *)
(*   req_count : yo-geon-hwak-in-seo-ryu-su, cs : C/S geom-sa-gu-bun,      *)
(*   accept_date : su-ri-il-ja, decl_date : sin-go-il-ja,                  *)
(*   entry_ts : ip-ryeok-il-si, date_basis : nal-jja_gi-jun,               *)
(*   weekday : yo-il_han-geul                                              *)
(***************************************************************************)
DateColumns == {"accept_date", "decl_date", "entry_ts"}

ReqColumns == {"doc_name", "doc_name_sp", "req_count"}

BaseColumns ==
    {"decl_no", "author", "importer", "forwarder", "trader", "lanes",
     "specs", "exemption", "fta", "txn", "cs"}

(***************************************************************************)
(* Generic sequence helpers.                                               *)
(***************************************************************************)
RECURSIVE SumSeq(_)
SumSeq(s) == IF s = << >> THEN 0 ELSE Head(s) + SumSeq(Tail(s))

\* df[col] as a sequence of cells
Col(data, c) == [i \in 1..Len(data) |-> data[i][c]]

Range(s) == {s[i] : i \in 1..Len(s)}

(***************************************************************************)
(* Date parsing.                                                           *)
(***************************************************************************)
Digits == {"0", "1", "2", "3", "4", "5", "6", "7", "8", "9"}

DigitVal(c) ==
    CASE c = "0" -> 0 [] c = "1" -> 1 [] c = "2" -> 2 [] c = "3" -> 3
      [] c = "4" -> 4 [] c = "5" -> 5 [] c = "6" -> 6 [] c = "7" -> 7
      [] c = "8" -> 8 [] c = "9" -> 9

\* str.isdigit(): every character a digit, and at least one character
IsDigit(s) == Len(s) > 0 /\ \A i \in 1..Len(s) : s[i] \in Digits

RECURSIVE NumVal(_)
NumVal(s) ==
    IF s = << >> THEN 0
    ELSE NumVal(SubSeq(s, 1, Len(s) - 1)) * 10 + DigitVal(s[Len(s)])

RECURSIVE LStrip(_)
LStrip(s) == IF s # << >> /\ Head(s) = " " THEN LStrip(Tail(s)) ELSE s

RECURSIVE RStrip(_)
RStrip(s) ==
    IF s # << >> /\ s[Len(s)] = " " THEN RStrip(SubSeq(s, 1, Len(s) - 1))
    ELSE s

\* str.strip()
Strip(s) == RStrip(LStrip(s))

IsLeap(y) == (y % 4 = 0 /\ y % 100 # 0) \/ y % 400 = 0

DaysInMonth(y, m) ==
    IF m = 2 THEN (IF IsLeap(y) THEN 29 ELSE 28)
    ELSE IF m \in {4, 6, 9, 11} THEN 30 ELSE 31

ValidDate(y, m, d) ==
    /\ y >= 1 /\ m >= 1 /\ m <= 12
    /\ d >= 1 /\ d <= DaysInMonth(y, m)

\* A Timestamp from year, month, day digits; NULL when they name no day
\* (pandas raises, or coerces to NaT; every caller turns both into null).
MkDate(ys, ms, ds) ==
    IF IsDigit(ys) /\ IsDigit(ms) /\ IsDigit(ds)
       /\ ValidDate(NumVal(ys), NumVal(ms), NumVal(ds))
    THEN Some([y |-> NumVal(ys), m |-> NumVal(ms), d |-> NumVal(ds)])
    ELSE NULL

\* pd.to_datetime on one string, for the layouts the model's inputs use:
\* YYYY-MM-DD, YYYY/MM/DD and YYYYMMDD.  Anything else is not a date.
ToDatetime(s) ==
    IF Len(s) = 10 /\ s[5] = s[8] /\ s[5] \in {"-", "/"}
    THEN MkDate(SubSeq(s, 1, 4), SubSeq(s, 6, 7), SubSeq(s, 9, 10))
    ELSE IF Len(s) = 8
    THEN MkDate(SubSeq(s, 1, 4), SubSeq(s, 5, 6), SubSeq(s, 7, 8))
    ELSE NULL

\* CustomsAnalyzer.parse_date_string, followed by the caller's
\* pd.to_datetime(..., errors='coerce') of the result (None becomes NaT).
parse_date_string(date_str) ==
    IF ~NotNa(date_str) THEN NULL
    ELSE LET s == Strip(date_str[1]) IN
         IF Len(s) = 8 /\ IsDigit(s)
         THEN ToDatetime(SubSeq(s, 1, 4) \o <<"-">> \o SubSeq(s, 5, 6)
                         \o <<"-">> \o SubSeq(s, 7, 8))
         ELSE IF "-" \in Range(s) /\ Len(s) = 10 THEN ToDatetime(s)
         ELSE IF "/" \in Range(s) THEN ToDatetime(s)
         ELSE ToDatetime(s)

\* pd.to_datetime(series, errors='coerce') on one cell of the entry column
ToDatetimeCoerce(v) == IF ~NotNa(v) THEN NULL ELSE ToDatetime(v[1])

\* Timestamp.dayofweek: Monday is 0 ... Sunday is 6
DayOfWeek(dt) ==
    LET t == <<0, 3, 2, 5, 0, 3, 5, 1, 4, 6, 2, 4>>
        yy == IF dt.m < 3 THEN dt.y - 1 ELSE dt.y
        sun0 == (yy + (yy \div 4) - (yy \div 100) + (yy \div 400)
                 + t[dt.m] + dt.d) % 7
    IN (sun0 + 6) % 7

\* the dayofweek -> weekday-name map of prepare_data
WeekdayName(k) ==
    CASE k = 0 -> "Mon" [] k = 1 -> "Tue" [] k = 2 -> "Wed" [] k = 3 -> "Thu"
      [] k = 4 -> "Fri" [] k = 5 -> "Sat" [] k = 6 -> "Sun"


(***************************************************************************)
(* pandas helpers.                                                         *)
(***************************************************************************)
\* Series.dropna()
DropNa(series) == SelectSeq(series, NotNa)

\* Series.unique(): the distinct cells in order of first appearance
RECURSIVE Unique(_)
Unique(series) ==
    IF series = << >> THEN << >>
    ELSE LET init == SubSeq(series, 1, Len(series) - 1)
             last == series[Len(series)]
         IN IF last \in Range(init) THEN Unique(init)
            ELSE Unique(init) \o <<last>>

\* Series.nunique(): the number of distinct non-null cells
NUnique(series) == Len(Unique(DropNa(series)))

\* GroupBy.first() of one column of one group: the first non-null cell
First(series) ==
    IF DropNa(series) = << >> THEN NULL ELSE Head(DropNa(series))

\* lambda x: x.notna().sum()
NotnaSum(series) == Len(DropNa(series))

\* df[df[col] == key]
RowsWhere(data, c, key) == SelectSeq(data, LAMBDA r : r[c] = key)

\* df[df[col].isin(keys)]
IsIn(data, c, keys) == SelectSeq(data, LAMBDA r : r[c] \in keys)

\* ascending insertion of an integer-valued key cell into a sorted sequence
RECURSIVE InsertAsc(_, _)
InsertAsc(sorted, k) ==
    IF sorted = << >> THEN <<k>>
    ELSE IF k[1] < Head(sorted)[1] THEN <<k>> \o sorted
         ELSE <<Head(sorted)>> \o InsertAsc(Tail(sorted), k)

RECURSIVE SortAsc(_)
SortAsc(keys) ==
    IF keys = << >> THEN << >>
    ELSE InsertAsc(SortAsc(SubSeq(keys, 1, Len(keys) - 1)), keys[Len(keys)])

\* GroupKeys without the deduplication of the keys: one group per row
GroupKeysNoDedup(data, c) == SortAsc(DropNa(Col(data, c)))

\* the group keys of df.groupby(col): distinct non-null keys, sorted
GroupKeys(data, c) == SortAsc(Unique(DropNa(Col(data, c))))

(***************************************************************************)
(* value_counts() and head(n).  An entry of a value-count table is         *)
(* [key, rows, decls]: `decls` keys that each occur on `rows` rows.  A     *)
(* table computed from rows has decls = 1 in every entry; the run-length   *)
(* form (decls > 1, one entry standing for that many keys of equal count)  *)
(* lets the same operators act on tables of thousands of keys.             *)
(***************************************************************************)
\* stable insertion, ascending by row count
RECURSIVE InsertAscByCount(_, _)
InsertAscByCount(sorted, e) ==
    IF sorted = << >> THEN <<e>>
    ELSE IF e.rows < Head(sorted).rows THEN <<e>> \o sorted
         ELSE <<Head(sorted)>> \o InsertAscByCount(Tail(sorted), e)

\* SortByCountDesc with ascending=True: fewest rows first
RECURSIVE SortByCountAsc(_)
SortByCountAsc(entries) ==
    IF entries = << >> THEN << >>
    ELSE InsertAscByCount(SortByCountAsc(SubSeq(entries, 1, Len(entries) - 1)),
                          entries[Len(entries)])

\* stable insertion, descending by row count
RECURSIVE InsertDesc(_, _)
InsertDesc(sorted, e) ==
    IF sorted = << >> THEN <<e>>
    ELSE IF e.rows > Head(sorted).rows THEN <<e>> \o sorted
         ELSE <<Head(sorted)>> \o InsertDesc(Tail(sorted), e)

\* sort_values(ascending=False) of a value-count table
RECURSIVE SortByCountDesc(_)
SortByCountDesc(entries) ==
    IF entries = << >> THEN << >>
    ELSE InsertDesc(SortByCountDesc(SubSeq(entries, 1, Len(entries) - 1)),
                    entries[Len(entries)])

\* Series.value_counts(): rows per distinct non-null key, most rows first
ValueCounts(series) ==
    LET keys == Unique(DropNa(series))
        count(k) == Cardinality({i \in 1..Len(series) : series[i] = k})
    IN SortByCountDesc([i \in 1..Len(keys) |->
           [key |-> keys[i], rows |-> count(keys[i]), decls |-> 1]])

\* the number of keys a value-count table stands for
RECURSIVE TotalDecls(_)
TotalDecls(entries) ==
    IF entries = << >> THEN 0
    ELSE Head(entries).decls + TotalDecls(Tail(entries))

\* head(n) of a value-count table: the first n keys
RECURSIVE HeadVC(_, _)
HeadVC(entries, n) ==
    IF entries = << >> \/ n <= 0 THEN << >>
    ELSE IF Head(entries).decls <= n
         THEN <<Head(entries)>> \o HeadVC(Tail(entries), n - Head(entries).decls)
         ELSE <<[Head(entries) EXCEPT !.decls = n]>>

\* the index of a (decls = 1) value-count table
KeysOf(entries) == {entries[i].key : i \in 1..Len(entries)}

(***************************************************************************)
(* CustomsAnalyzer.__init__ and prepare_data.                              *)
(***************************************************************************)
DefaultWeights ==
    [lane_weight |-> 10, spec_weight |-> 5, requirement_weight |-> 100,
     exemption_weight |-> 100, fta_weight |-> 100,
     transaction_weight |-> 50, trader_weight |-> 50]

\* essential_cols of __init__
EssentialCols ==
    {"decl_no", "author", "importer", "forwarder", "trader", "decl_date",
     "accept_date", "entry_ts", "lanes", "specs", "req_count", "exemption",
     "fta", "txn", "cs", "doc_name_sp"}

\* self.df[available_cols]: a dropped column no longer holds anything
Project(data, cols) ==
    [i \in 1..Len(data) |->
        [f \in DOMAIN data[i] |-> IF f \in cols THEN data[i][f] ELSE NULL]]

\* the column pruning applied from PruneThreshold rows on
PrunedColumnsFrom(n, cols) ==
    IF n >= PruneThreshold THEN cols \cap EssentialCols ELSE cols

\* the column pruning of __init__ on a frame of n rows: the columns kept
PrunedColumns(n, cols) ==
    IF n > PruneThreshold THEN cols \cap EssentialCols ELSE cols

\* update_weights with setdefault in place of update
update_weights_first(w, u) ==
    [k \in DOMAIN w \cup DOMAIN u |-> IF k \in DOMAIN w THEN w[k] ELSE u[k]]

\* update_weights: self.weights.update(weights)
update_weights(w, u) ==
    [k \in DOMAIN w \cup DOMAIN u |-> IF k \in DOMAIN u THEN u[k] ELSE w[k]]

\* the sidebar of a new session: the inputs show their default values,
\* the toggle is off and nothing is saved
InitialSession ==
    [inputs |-> DefaultWeights, use_custom_weights |-> FALSE,
     custom_weights |-> NULL, uploaded_file |-> FALSE]

\* weights or {defaults}: None and the empty dict both give the defaults
InitWeights(w) == IF w = NULL THEN DefaultWeights ELSE w[1]

\* one candidate column parsed cell by cell
ParsedColumn(data, c) ==
    [i \in 1..Len(data) |->
        IF c = "entry_ts" THEN ToDatetimeCoerce(data[i][c])
        ELSE parse_date_string(data[i][c])]

\* parsed.notna().sum()
ParsedCount(parsed) == Cardinality({i \in 1..Len(parsed) : NotNa(parsed[i])})

\* The three candidate-column steps of prepare_data act on the locals
\* [date_success, total_count, error, selected]: total_count is NULL while
\* unbound (it is assigned only inside the accept_date step), selected is
\* the column assigned to date_basis, "none" while there is none.
DateLocals ==
    [date_success |-> FALSE, total_count |-> NULL, error |-> FALSE,
     selected |-> "none"]

\* priority 1: accept_date
TryAcceptDate(st, data, cols) ==
    IF "accept_date" \notin cols THEN st
    ELSE IF ParsedCount(ParsedColumn(data, "accept_date")) > 0
    THEN [st EXCEPT !.total_count = Some(Len(data)),
                    !.date_success = TRUE, !.selected = "accept_date"]
    ELSE [st EXCEPT !.total_count = Some(Len(data))]

\* priority 2 and 3: decl_date, entry_ts.  The step formats total_count
\* into its log line right after parsing: NameError while it is unbound.
TryLaterDate(st, data, cols, c) ==
    IF st.error \/ st.date_success \/ c \notin cols THEN st
    ELSE IF st.total_count = NULL THEN [st EXCEPT !.error = TRUE]
    ELSE IF ParsedCount(ParsedColumn(data, c)) > 0
    THEN [st EXCEPT !.date_success = TRUE, !.selected = c]
    ELSE st

\* SelectDateColumn as "best success": the present column with the most
\* parsed values, the earlier one on a tie
SelectBestColumn(data, cols) ==
    LET n(c) == IF c \in cols THEN ParsedCount(ParsedColumn(data, c)) ELSE 0
        best == IF n("accept_date") >= n("decl_date")
                   /\ n("accept_date") >= n("entry_ts")
                THEN "accept_date"
                ELSE IF n("decl_date") >= n("entry_ts") THEN "decl_date"
                ELSE "entry_ts"
    IN IF n(best) > 0
       THEN [DateLocals EXCEPT !.date_success = TRUE, !.selected = best]
       ELSE DateLocals

SelectDateColumn(data, cols) ==
    TryLaterDate(
        TryLaterDate(TryAcceptDate(DateLocals, data, cols),
                     data, cols, "decl_date"),
        data, cols, "entry_ts")

\* the weekday column derived from the canonical date of one row
WeekdayOf(date) ==
    IF NotNa(date) THEN Some(WeekdayName(DayOfWeek(date[1]))) ELSE NULL

\* DateBasis that always copies the parsed acceptance date
DateBasisAccept(row, c) ==
    IF c = "none" THEN NULL ELSE parse_date_string(row.accept_date)

\* date_basis of one row under the selected column
DateBasis(row, c) ==
    IF c = "none" THEN NULL
    ELSE IF c = "entry_ts" THEN ToDatetimeCoerce(row[c])
    ELSE parse_date_string(row[c])

\* the derived columns appended once the column is chosen
WithDerived(st, data, cols) ==
    [error |-> st.error,
     selected |-> st.selected,
     df |-> [i \in 1..Len(data) |->
               [data[i] EXCEPT
                   !.date_basis = DateBasis(data[i], st.selected),
                   !.weekday = WeekdayOf(DateBasis(data[i], st.selected))]],
     columns |-> cols \cup {"weekday"}
                 \cup (IF st.date_success THEN {"date_basis"} ELSE {})]

\* prepare_data: [error, selected, df, columns]
prepare_data(data, cols) ==
    WithDerived(SelectDateColumn(data, cols), data, cols)

(***************************************************************************)
(* CustomsAnalyzer.calculate_complexity_score.                             *)
(***************************************************************************)
\* the scale guard: at most DeclCap declarations, those with the most rows
CapDeclarations(vc) ==
    IF TotalDecls(vc) > DeclCap THEN HeadVC(vc, DeclCap) ELSE vc

ScaleGuard(data) ==
    LET unique_declarations == NUnique(Col(data, "decl_no"))
        top_declarations ==
            KeysOf(CapDeclarations(ValueCounts(Col(data, "decl_no"))))
    IN IF unique_declarations > DeclCap
       THEN IsIn(data, "decl_no", top_declarations)
       ELSE data

\* the requirement column that agg_dict takes, "none" when there is none
ReqColumn(cols) ==
    IF "doc_name" \in cols THEN "doc_name"
    ELSE IF "doc_name_sp" \in cols THEN "doc_name_sp"
    ELSE IF "req_count" \in cols THEN "req_count"
    ELSE "none"

\* AggDeclaration counting the non-null rows of whichever requirement column
AggDeclarationCounting(key, rows, cols) ==
    [decl_no |-> key,
     lanes |-> First(Col(rows, "lanes")),
     specs |-> First(Col(rows, "specs")),
     exemption |-> First(Col(rows, "exemption")),
     fta |-> First(Col(rows, "fta")),
     txn |-> Some(NUnique(Col(rows, "txn"))),
     trader |-> Some(NUnique(Col(rows, "trader"))),
     req |-> IF ReqColumn(cols) # "none"
             THEN Some(NotnaSum(Col(rows, ReqColumn(cols))))
             ELSE NULL]

\* one row of decl_grouped: the aggregation of one declaration's rows
AggDeclaration(key, rows, cols) ==
    [decl_no |-> key,
     lanes |-> First(Col(rows, "lanes")),
     specs |-> First(Col(rows, "specs")),
     exemption |-> First(Col(rows, "exemption")),
     fta |-> First(Col(rows, "fta")),
     txn |-> Some(NUnique(Col(rows, "txn"))),
     trader |-> Some(NUnique(Col(rows, "trader"))),
     req |-> IF ReqColumn(cols) \in {"doc_name", "doc_name_sp"}
             THEN Some(NotnaSum(Col(rows, ReqColumn(cols))))
             ELSE IF ReqColumn(cols) = "req_count"
             THEN First(Col(rows, "req_count"))
             ELSE NULL]

\* data.groupby('decl_no').agg(agg_dict).reset_index()
DeclGrouped(data, cols) ==
    LET keys == GroupKeys(data, "decl_no")
    IN [i \in 1..Len(keys) |->
          AggDeclaration(keys[i], RowsWhere(data, "decl_no", keys[i]), cols)]

\* notna() & (astype(str).str.strip() != '')
ExemptionMask(v) == NotNa(v) /\ Strip(v[1]) # << >>

\* DeclScore with the lane and spec weights exchanged
DeclScoreSwapped(d, cols, w) ==
    FillNa(d.lanes, 0) * w.spec_weight
    + FillNa(d.specs, 0) * w.lane_weight
    + (IF ReqColumn(cols) # "none"
       THEN FillNa(d.req, 0) * w.requirement_weight ELSE 0)
    + (IF ExemptionMask(d.exemption) THEN w.exemption_weight ELSE 0)
    + (IF d.fta = Some("Y") THEN w.fta_weight ELSE 0)
    + FillNa(d.txn, 1) * w.transaction_weight
    + FillNa(d.trader, 1) * w.trader_weight

\* DeclScore with missing lane and spec counts filled with -1
DeclScoreSentinel(d, cols, w) ==
    FillNa(d.lanes, -1) * w.lane_weight
    + FillNa(d.specs, -1) * w.spec_weight
    + (IF ReqColumn(cols) # "none"
       THEN FillNa(d.req, 0) * w.requirement_weight ELSE 0)
    + (IF ExemptionMask(d.exemption) THEN w.exemption_weight ELSE 0)
    + (IF d.fta = Some("Y") THEN w.fta_weight ELSE 0)
    + FillNa(d.txn, 1) * w.transaction_weight
    + FillNa(d.trader, 1) * w.trader_weight

\* the score of one row of decl_grouped, in tenths
DeclScore(d, cols, w) ==
    LET lane_scores == FillNa(d.lanes, 0) * w.lane_weight
        spec_scores == FillNa(d.specs, 0) * w.spec_weight
        req_scores == IF ReqColumn(cols) # "none"
                      THEN FillNa(d.req, 0) * w.requirement_weight
                      ELSE 0
        exemption == IF ExemptionMask(d.exemption)
                     THEN w.exemption_weight ELSE 0
        fta == IF d.fta = Some("Y") THEN w.fta_weight ELSE 0
        transaction_scores == FillNa(d.txn, 1) * w.transaction_weight
        trader_scores == FillNa(d.trader, 1) * w.trader_weight
    IN lane_scores + spec_scores + req_scores + exemption + fta
       + transaction_scores + trader_scores

\* MeanScore returning the sum
SumScore(scores) == [num |-> SumSeq(scores), den |-> 1]

\* np.mean(scores) if len(scores) > 0 else 0, as an exact fraction
MeanScore(scores) ==
    IF Len(scores) > 0
    THEN [num |-> SumSeq(scores), den |-> Len(scores)]
    ELSE [num |-> 0, den |-> 1]

\* One invocation: [arg, data (after the scale guard), decl_grouped,
\* scores, result].
calculate_complexity_score(data, cols, w) ==
    LET capped == ScaleGuard(data)
        decl_grouped == DeclGrouped(capped, cols)
        scores == [i \in 1..Len(decl_grouped) |->
                      DeclScore(decl_grouped[i], cols, w)]
    IN [arg |-> data, data |-> capped, decl_grouped |-> decl_grouped,
        scores |-> scores, result |-> MeanScore(scores)]

\* round(x, 1) of a fraction of tenths: the nearest tenth, halves to even
Round1(x) ==
    LET q == x.num \div x.den
        r == x.num % x.den
    IN IF 2 * r < x.den THEN q
       ELSE IF 2 * r > x.den THEN q + 1
       ELSE IF q % 2 = 0 THEN q ELSE q + 1

(***************************************************************************)
(* The three rollups: analyze_by_author, analyze_by_importer,              *)
(* analyze_by_forwarder.  Each gives [table, calls]: the result table and  *)
(* the invocations of calculate_complexity_score it made, in loop order.   *)
(***************************************************************************)
Weekdays == <<"Mon", "Tue", "Wed", "Thu", "Fri">>

\* ValidData without the test for the empty string
ValidDataNotNull(data, c) == SelectSeq(data, LAMBDA r : NotNa(r[c]))

\* self.df[self.df[c].notna() & (self.df[c] != '')]
ValidData(data, c) ==
    SelectSeq(data, LAMBDA r : NotNa(r[c]) /\ r[c] # Some(""))

\* CapEntities without the cut
CapEntitiesNone(vc, cap) == vc

\* the entity cap on a value-count table: at most `cap` keys, those with
\* the most rows
CapEntities(vc, cap) ==
    IF TotalDecls(vc) > cap THEN HeadVC(vc, cap) ELSE vc

\* the entity cap: the top `cap` keys by raw row count
EntityCap(valid, c, cap) ==
    IF Len(Unique(Col(valid, c))) > cap
    THEN IsIn(valid, c, KeysOf(CapEntities(ValueCounts(Col(valid, c)), cap)))
    ELSE valid

\* data.groupby('decl_no').first().reset_index()
GroupFirst(data) ==
    LET keys == GroupKeys(data, "decl_no")
    IN [i \in 1..Len(keys) |->
          LET rows == RowsWhere(data, "decl_no", keys[i])
          IN [f \in DOMAIN rows[1] |->
                 IF f = "decl_no" THEN keys[i] ELSE First(Col(rows, f))]]

\* WeekdayStats counting line rows instead of distinct declarations
WeekdayStatsRows(data, cols) ==
    [k \in 1..Len(Weekdays) |->
        IF "weekday" \in cols
        THEN Len(RowsWhere(data, "weekday", Some(Weekdays[k])))
        ELSE 0]

\* weekday_stats: distinct declarations per weekday name, Monday to Friday
WeekdayStats(data, cols) ==
    [k \in 1..Len(Weekdays) |->
        IF "weekday" \in cols
        THEN NUnique(Col(RowsWhere(data, "weekday", Some(Weekdays[k])),
                         "decl_no"))
        ELSE 0]

\* round(count / n * 100, 1) if n > 0 else 0, in tenths of a percent
Rate(count, n) ==
    IF n > 0 THEN Round1([num |-> count * 1000, den |-> n]) ELSE 0

\* round(total / n, 1) if n > 0 else 0, in tenths
AvgPer(total, n) ==
    IF n > 0 THEN Round1([num |-> total * 10, den |-> n]) ELSE 0

\* round(series.fillna(0).mean(), 1): NaN (NULL) for an empty series
MeanFilled(series) ==
    IF Len(series) = 0 THEN NULL
    ELSE Some(Round1([num |-> 10 * SumSeq([i \in 1..Len(series) |->
                                              FillNa(series[i], 0)]),
                      den |-> Len(series)]))

\* counts.index[0] if len(counts) > 0 else ''
MainOf(series) ==
    IF Len(ValueCounts(series)) > 0 THEN ValueCounts(series)[1].key
    ELSE Some("")

\* DocDeclarations counting line rows instead of declarations
DocRows(data, c) == Len(SelectSeq(data, LAMBDA r : NotNa(r[c])))

\* declarations with a non-null cell in the document-name column c
DocDeclarations(data, c) ==
    NUnique(Col(SelectSeq(data, LAMBDA r : NotNa(r[c])), "decl_no"))

\* FtaCount counting every non-null flag
FtaCountNotNull(decl_grouped) ==
    Len(SelectSeq(decl_grouped, LAMBDA d : NotNa(d.fta)))

\* rows of decl_grouped with origin-certificate flag 'Y'
FtaCount(decl_grouped) ==
    Len(SelectSeq(decl_grouped, LAMBDA d : d.fta = Some("Y")))

\* rows of decl_grouped with a non-blank exemption code
ExemptionCount(decl_grouped) ==
    Len(SelectSeq(decl_grouped, LAMBDA d : ExemptionMask(d.exemption)))

\* stable insertion of a result row, descending by field f
RECURSIVE InsertRowDesc(_, _, _)
InsertRowDesc(sorted, r, f) ==
    IF sorted = << >> THEN <<r>>
    ELSE IF r[f] > Head(sorted)[f] THEN <<r>> \o sorted
         ELSE <<Head(sorted)>> \o InsertRowDesc(Tail(sorted), r, f)

\* SortRowsDesc leaving the rows in loop order
SortRowsKeep(rows, f) == rows

\* result_df.sort_values(f, ascending=False)
RECURSIVE SortRowsDesc(_, _)
SortRowsDesc(rows, f) ==
    IF rows = << >> THEN << >>
    ELSE InsertRowDesc(SortRowsDesc(SubSeq(rows, 1, Len(rows) - 1), f),
                       rows[Len(rows)], f)

\* one row of the author table
AuthorSummary(author, author_data, cols, w) ==
    LET decl_grouped == GroupFirst(author_data)
        unique_declarations == Len(decl_grouped)
        call == calculate_complexity_score(author_data, cols, w)
    IN [key |-> author,
        total_items |-> Len(author_data),
        unique_declarations |-> unique_declarations,
        complexity_score |-> Round1(call.result),
        total_lanes |-> SumSeq([i \in 1..Len(decl_grouped) |->
                                   FillNa(decl_grouped[i].lanes, 0)]),
        total_specs |-> SumSeq([i \in 1..Len(decl_grouped) |->
                                   FillNa(decl_grouped[i].specs, 0)]),
        requirement_count |->
            IF "doc_name" \in cols
            THEN DocDeclarations(author_data, "doc_name")
            ELSE IF "doc_name_sp" \in cols
            THEN DocDeclarations(author_data, "doc_name_sp")
            ELSE IF "req_count" \in cols
            THEN Len(SelectSeq(decl_grouped,
                     LAMBDA d : NotNa(d.req_count) /\ d.req_count[1] > 0))
            ELSE 0,
        fta_rate |-> Rate(FtaCount(decl_grouped), unique_declarations),
        exemption_rate |->
            Rate(ExemptionCount(decl_grouped), unique_declarations),
        transaction_types |-> NUnique(Col(decl_grouped, "txn")),
        trader_count |-> NUnique(Col(decl_grouped, "trader")),
        importer_count |-> NUnique(Col(decl_grouped, "importer")),
        avg_items |-> AvgPer(Len(author_data), unique_declarations),
        weekdays |-> WeekdayStats(author_data, cols)]

\* one row of the importer table
ImporterSummary(importer, importer_data, cols, w) ==
    LET decl_grouped == GroupFirst(importer_data)
        unique_declarations == Len(decl_grouped)
        call == calculate_complexity_score(importer_data, cols, w)
        doc_col == IF "doc_name" \in cols THEN "doc_name"
                   ELSE IF "doc_name_sp" \in cols THEN "doc_name_sp"
                   ELSE "none"
    IN [key |-> importer,
        total_items |-> Len(importer_data),
        unique_declarations |-> unique_declarations,
        complexity_score |-> Round1(call.result),
        main_author |-> MainOf(Col(importer_data, "author")),
        author_diversity |-> Len(ValueCounts(Col(importer_data, "author"))),
        document_types |->
            IF doc_col = "none" THEN 0
            ELSE NUnique(Col(importer_data, doc_col)),
        requirement_rate |->
            IF doc_col = "none" THEN 0
            ELSE Rate(DocDeclarations(importer_data, doc_col),
                      unique_declarations),
        fta_rate |-> Rate(FtaCount(decl_grouped), unique_declarations),
        exemption_rate |->
            Rate(ExemptionCount(decl_grouped), unique_declarations),
        transaction_types |-> NUnique(Col(decl_grouped, "txn")),
        trader_count |-> NUnique(Col(decl_grouped, "trader")),
        avg_items |-> AvgPer(Len(importer_data), unique_declarations),
        weekdays |-> WeekdayStats(importer_data, cols)]

\* one row of the forwarder table
ForwarderSummary(forwarder, forwarder_data, cols, w) ==
    LET decl_grouped == GroupFirst(forwarder_data)
        unique_declarations == Len(decl_grouped)
        call == calculate_complexity_score(forwarder_data, cols, w)
    IN [key |-> forwarder,
        total_items |-> Len(forwarder_data),
        unique_declarations |-> unique_declarations,
        complexity_score |-> Round1(call.result),
        main_author |-> MainOf(Col(decl_grouped, "author")),
        author_diversity |-> Len(ValueCounts(Col(decl_grouped, "author"))),
        main_importer |-> MainOf(Col(decl_grouped, "importer")),
        importer_count |-> Len(ValueCounts(Col(decl_grouped, "importer"))),
        trader_count |-> NUnique(Col(decl_grouped, "trader")),
        avg_lanes |-> MeanFilled(Col(decl_grouped, "lanes")),
        avg_specs |-> MeanFilled(Col(decl_grouped, "specs")),
        fta_rate |-> Rate(FtaCount(decl_grouped), unique_declarations),
        exemption_rate |->
            Rate(ExemptionCount(decl_grouped), unique_declarations),
        avg_items |-> AvgPer(Len(forwarder_data), unique_declarations),
        weekdays |-> WeekdayStats(forwarder_data, cols)]

\* the entities a rollup loops over, in loop order
Entities(data, c, cap) == Unique(Col(EntityCap(ValidData(data, c), c, cap), c))

\* the rows of one entity
EntityData(data, c, cap, key) ==
    RowsWhere(EntityCap(ValidData(data, c), c, cap), c, key)

\* the scorer invocations of a rollup over column c
RollupCalls(data, cols, w, c, cap) ==
    IF c \notin cols THEN << >>
    ELSE LET keys == Entities(data, c, cap)
         IN [i \in 1..Len(keys) |->
               calculate_complexity_score(
                   EntityData(data, c, cap, keys[i]), cols, w)]

analyze_by_author(data, cols, w) ==
    IF "author" \notin cols THEN << >>
    ELSE LET keys == Entities(data, "author", AuthorCap)
         IN SortRowsDesc(
              [i \in 1..Len(keys) |->
                 AuthorSummary(keys[i],
                     EntityData(data, "author", AuthorCap, keys[i]), cols, w)],
              "complexity_score")

analyze_by_importer(data, cols, w) ==
    IF "importer" \notin cols THEN << >>
    ELSE LET keys == Entities(data, "importer", ImporterCap)
         IN SortRowsDesc(
              [i \in 1..Len(keys) |->
                 ImporterSummary(keys[i],
                     EntityData(data, "importer", ImporterCap, keys[i]),
                     cols, w)],
              "total_items")

analyze_by_forwarder(data, cols, w) ==
    IF "forwarder" \notin cols THEN << >>
    ELSE LET keys == Entities(data, "forwarder", ForwarderCap)
         IN SortRowsDesc(
              [i \in 1..Len(keys) |->
                 ForwarderSummary(keys[i],
                     EntityData(data, "forwarder", ForwarderCap, keys[i]),
                     cols, w)],
              "total_items")

\* A rollup raises KeyError when it loops over at least one entity and a
\* column its loop body reads is absent.
RollupRaises(data, cols, c, cap, needed) ==
    /\ c \in cols
    /\ Entities(data, c, cap) # << >>
    /\ ~(needed \subseteq cols)

ScorerColumns ==
    {"decl_no", "lanes", "specs", "exemption", "fta", "txn", "trader"}

(***************************************************************************)
(* CustomsAnalyzer.analyze_cs_inspection: [table, stats].                  *)
(***************************************************************************)
\* the inspection codes of the inputs, in the order groupby sorts its keys
CsAlphabet == <<"C", "F", "N", "S", "X", "Y">>

\* inspection_mapping, and fillna('other') for a code it does not hold
InspectionLabel(code) ==
    CASE code = "Y" -> "customs" [] code = "F" -> "joint"
      [] code = "N" -> "none" [] code = "C" -> "document"
      [] code = "S" -> "sample" [] OTHER -> "other"

\* unique_declarations.groupby('cs').size(): one row per code
CsCounts(unique_declarations) ==
    LET keys == SelectSeq(CsAlphabet, LAMBDA c :
                    Some(c) \in Range(Col(unique_declarations, "cs")))
    IN [i \in 1..Len(keys) |->
          [code |-> keys[i],
           count |-> Len(RowsWhere(unique_declarations, "cs", Some(keys[i]))),
           label |-> InspectionLabel(keys[i])]]

\* NoInspectionCount summing every row of the table
NoInspectionCountAll(cs_analysis) ==
    SumSeq([i \in 1..Len(cs_analysis) |-> cs_analysis[i].count])

\* the declarations counted under code 'N'
NoInspectionCount(cs_analysis) ==
    SumSeq([i \in 1..Len(cs_analysis) |->
               IF cs_analysis[i].code = "N" THEN cs_analysis[i].count ELSE 0])

\* stats_summary
CsStats(cs_analysis, total_declarations) ==
    [total |-> total_declarations,
     kinds |-> Len(cs_analysis),
     top |-> IF cs_analysis # << >> THEN cs_analysis[1].label ELSE "",
     no_inspection_rate |->
         Rate(NoInspectionCount(cs_analysis), total_declarations)]

\* the table of analyze_cs_inspection from the deduplicated declarations
CsTable(unique_declarations) ==
    SortRowsDesc(CsCounts(unique_declarations), "count")

\* analyze_cs_inspection taking the total over all declarations
analyze_cs_inspection_all(data, cols) ==
    IF "cs" \notin cols THEN [table |-> << >>, stats |-> NULL]
    ELSE [table |->
              CsTable(GroupFirst(SelectSeq(data, LAMBDA r : NotNa(r.cs)))),
          stats |->
              Some(CsStats(
                  CsTable(GroupFirst(SelectSeq(data, LAMBDA r : NotNa(r.cs)))),
                  Len(GroupFirst(data))))]

\* analyze_cs_inspection counting line rows instead of declarations
analyze_cs_inspection_rows(data, cols) ==
    IF "cs" \notin cols THEN [table |-> << >>, stats |-> NULL]
    ELSE [table |-> CsTable(SelectSeq(data, LAMBDA r : NotNa(r.cs))),
          stats |->
              Some(CsStats(
                  CsTable(SelectSeq(data, LAMBDA r : NotNa(r.cs))),
                  Len(SelectSeq(data, LAMBDA r : NotNa(r.cs)))))]

\* the table of analyze_cs_inspection from the per-code sizes, as
\* groupby('cs').size() lists them
CsLabelled(sizes) ==
    SortRowsDesc([i \in 1..Len(sizes) |->
                     [code |-> sizes[i].code, count |-> sizes[i].count,
                      label |-> InspectionLabel(sizes[i].code)]], "count")

analyze_cs_inspection(data, cols) ==
    IF "cs" \notin cols THEN [table |-> << >>, stats |-> NULL]
    ELSE [table |->
              CsTable(GroupFirst(SelectSeq(data, LAMBDA r : NotNa(r.cs)))),
          stats |->
              Some(CsStats(
                  CsTable(GroupFirst(SelectSeq(data, LAMBDA r : NotNa(r.cs)))),
                  Len(GroupFirst(SelectSeq(data, LAMBDA r : NotNa(r.cs))))))]

(***************************************************************************)
(* State.                                                                  *)
(*   src_df, src_columns, src_weights : the uploaded dataset and the       *)
(*   src_blank : the number of further rows of the uploaded dataset, after *)
(*       those of src_df, that are null in every column; every analysis    *)
(*       filters them out, so df holds the rows of src_df only             *)
(*       weights main passes to CustomsAnalyzer (NULL is None)             *)
(*   session_state : the sidebar of main: the values of the seven weight   *)
(*       inputs, the custom-weights toggle, and the saved 'custom_weights' *)
(*       record (NULL while the key is not in st.session_state)            *)
(*   weight_log : the arguments of the update_weights calls made so far    *)
(*   call_log : the analyses a caller other than main has invoked on the   *)
(*       analyzer so far, in order                                         *)
(*   pc : the position of the analysis run of main                         *)
(*   screen : what main has put on the page for this run, in order: the    *)
(*       names of the result tables, "error" for the message of the        *)
(*       exception handler, "no_data" for the message about empty results  *)
(*   df, columns, weights : the analyzer's fields                          *)
(*   selected : the candidate column prepare_data took as canonical date   *)
(*   author_df, importer_df, forwarder_df : the result tables              *)
(*   cs_df, cs_stats : the result of analyze_cs_inspection                 *)
(*   scorer_calls : the invocations of calculate_complexity_score made by  *)
(*       the last rollup                                                   *)
(*   vc_in, vc_kept : a value-count table of declaration numbers in        *)
(*       run-length form, before and after the scorer's scale guard        *)
(***************************************************************************)
VARIABLES call_log, session_state, weight_log, screen, src_df, src_blank, src_columns, src_weights, pc, df, columns, weights,
          selected, author_df, importer_df, forwarder_df, cs_df, cs_stats,
          scorer_calls, vc_in, vc_kept

vars == <<call_log, session_state, weight_log, screen, src_df, src_blank, src_columns, src_weights, pc, df, columns, weights,
          selected, author_df, importer_df, forwarder_df, cs_df, cs_stats,
          scorer_calls, vc_in, vc_kept>>

(***************************************************************************)
(* Inputs.                                                                 *)
(***************************************************************************)
Str(s) == Some(s)

BlankRow ==
    [decl_no |-> NULL, author |-> NULL, importer |-> NULL,
     forwarder |-> NULL, trader |-> NULL, lanes |-> NULL, specs |-> NULL,
     exemption |-> NULL, fta |-> NULL, txn |-> NULL, doc_name |-> NULL,
     doc_name_sp |-> NULL, req_count |-> NULL, cs |-> NULL,
     accept_date |-> NULL, decl_date |-> NULL, entry_ts |-> NULL,
     date_basis |-> NULL, weekday |-> NULL]

D20250721 == <<"2", "0", "2", "5", "0", "7", "2", "1">>
D20251340 == <<"2", "0", "2", "5", "1", "3", "4", "0">>
DHyphen22 == <<"2", "0", "2", "5", "-", "0", "7", "-", "2", "2">>
DHyphen23 == <<"2", "0", "2", "5", "-", "0", "7", "-", "2", "3">>
DSlash26 == <<"2", "0", "2", "5", "/", "0", "7", "/", "2", "6">>
D20250725 == <<"2", "0", "2", "5", "0", "7", "2", "5">>
DBlank == <<" ">>
DGarbage == <<"x">>

\* line rows for the scorer and the rollups
ScoreRow1 ==
    [BlankRow EXCEPT !.decl_no = Some(1), !.author = Str("A1"),
        !.importer = Str("I1"), !.forwarder = Str("F1"),
        !.trader = Str("T1"), !.lanes = Some(10), !.specs = Some(20),
        !.exemption = Some(<<"A">>), !.fta = Str("Y"), !.txn = Str("11"),
        !.doc_name = Str("d1"), !.doc_name_sp = Str("d1"),
        !.req_count = Some(2), !.accept_date = Some(D20250721)]

ScoreRow2 ==
    [BlankRow EXCEPT !.decl_no = Some(1), !.author = Str("A1"),
        !.importer = Str("I1"), !.forwarder = Str("F1"),
        !.trader = Str("T2"), !.txn = Str("15"),
        !.doc_name = Str("d2"), !.doc_name_sp = Str("d2"),
        !.accept_date = Some(DHyphen22)]

ScoreRow3 ==
    [BlankRow EXCEPT !.decl_no = Some(1), !.author = Str("A1"),
        !.importer = Str("I1"), !.forwarder = Str("F1"),
        !.trader = Str("T3"), !.lanes = Some(7), !.txn = Str("11"),
        !.accept_date = Some(DSlash26)]

ScoreRow4 ==
    [BlankRow EXCEPT !.decl_no = Some(2), !.author = Str("A2"),
        !.importer = Str("I1"), !.forwarder = Str("F1"),
        !.accept_date = Some(D20250721)]

ScoreRow5 ==
    [BlankRow EXCEPT !.author = Str("A1"), !.importer = Str(""),
        !.forwarder = Str("F1"), !.trader = Str("T1"), !.lanes = Some(10),
        !.exemption = Some(<<"A">>), !.fta = Str("Y"), !.txn = Str("11")]

ScoreRow6 ==
    [BlankRow EXCEPT !.decl_no = Some(3), !.author = Str("A2"),
        !.importer = Str("I2"), !.trader = Str("T1"), !.lanes = Some(0),
        !.specs = Some(4), !.exemption = Some(DBlank), !.fta = Str("N"),
        !.txn = Str("15"), !.req_count = Some(0)]

ScoreRows ==
    {ScoreRow1, ScoreRow2, ScoreRow3, ScoreRow4, ScoreRow5, ScoreRow6}

AltWeights ==
    [lane_weight |-> 20, spec_weight |-> 30, requirement_weight |-> 70,
     exemption_weight |-> 110, fta_weight |-> 130,
     transaction_weight |-> 170, trader_weight |-> 190]

SeqsUpTo(S, n) == UNION {[1..k -> S] : k \in 0..n}

\* datasets for the scorer and the rollups: every base column, the
\* acceptance date, and one of the layouts of the requirement columns
ScoreInputs ==
    {[df |-> Project(rows, BaseColumns \cup {"accept_date"} \cup req),
      columns |-> BaseColumns \cup {"accept_date"} \cup req,
      weights |-> w] :
        rows \in SeqsUpTo(ScoreRows, MaxRows),
        req \in {{}, {"doc_name"}, {"doc_name_sp", "req_count"},
                 {"req_count"}},
        w \in {NULL, Some(AltWeights)}}

DateRow(k, a, d, e) ==
    [BlankRow EXCEPT !.decl_no = Some(IF k = 1 THEN 1 ELSE 2),
        !.author = Str("A1"), !.importer = Str("I1"),
        !.forwarder = Str("F1"), !.lanes = Some(1),
        !.accept_date = a, !.decl_date = d, !.entry_ts = e]

\* the raw values drawn for each candidate column
DateValues(c) ==
    IF c = "accept_date" THEN {NULL, Some(D20250721), Some(D20251340)}
    ELSE IF c = "decl_date" THEN {NULL, Some(DHyphen22), Some(DBlank)}
    ELSE {Some(DHyphen23), Some(DGarbage)}

\* the cells of one row in the columns present
DateCells(present) ==
    {f \in [present -> UNION {DateValues(c) : c \in DateColumns}] :
        \A c \in present : f[c] \in DateValues(c)}

CellOf(f, c) == IF c \in DOMAIN f THEN f[c] ELSE NULL

\* datasets for the date normalizer: any subset of the three candidate
\* date columns, any values in the columns present
DateInputs ==
    UNION {
      {[df |-> [k \in 1..n |->
                  DateRow(k, CellOf(cells[k], "accept_date"),
                          CellOf(cells[k], "decl_date"),
                          CellOf(cells[k], "entry_ts"))],
        columns |-> BaseColumns \cup present,
        weights |-> NULL] :
          cells \in [1..n -> DateCells(present)]} :
      n \in 1..MaxDateRows, present \in SUBSET DateColumns}

Inputs == ScoreInputs \cup DateInputs

\* line rows for the rollups and the inspection analysis: declaration 1 on
\* two rows with different authors, weekdays and inspection codes,
\* declarations 2 to 4 on one row each, and a row without declaration number
RollupRow1 ==
    [BlankRow EXCEPT !.decl_no = Some(1), !.author = Str("A1"),
        !.importer = Str("I1"), !.forwarder = Str("F1"),
        !.trader = Str("T1"), !.lanes = Some(10), !.specs = Some(20),
        !.exemption = Some(<<"A">>), !.fta = Str("Y"), !.txn = Str("11"),
        !.doc_name = Str("d1"), !.doc_name_sp = Str("d1"),
        !.req_count = Some(2), !.cs = Str("N"),
        !.accept_date = Some(D20250721)]

RollupRow2 ==
    [BlankRow EXCEPT !.decl_no = Some(1), !.author = Str("A2"),
        !.importer = Str("I1"), !.forwarder = Str("F1"),
        !.trader = Str("T2"), !.txn = Str("15"), !.doc_name = Str("d2"),
        !.cs = Str("Y"), !.accept_date = Some(DHyphen22)]

RollupRow3 ==
    [BlankRow EXCEPT !.decl_no = Some(2), !.author = Str("A2"),
        !.importer = Str("I1"), !.forwarder = Str("F1"),
        !.accept_date = Some(D20250721)]

RollupRow4 ==
    [BlankRow EXCEPT !.decl_no = Some(3), !.author = Str("A2"),
        !.importer = Str("I2"), !.forwarder = Str("F1"),
        !.trader = Str("T1"), !.lanes = Some(0), !.specs = Some(4),
        !.exemption = Some(DBlank), !.fta = Str("N"), !.txn = Str("15"),
        !.doc_name_sp = Str("d1"), !.req_count = Some(0), !.cs = Str("X"),
        !.accept_date = Some(DSlash26)]

RollupRow5 ==
    [BlankRow EXCEPT !.author = Str("A1"), !.importer = Str(""),
        !.trader = Str("T1"), !.lanes = Some(10), !.fta = Str("Y"),
        !.txn = Str("11"), !.doc_name = Str("d1"), !.cs = Str("N"),
        !.accept_date = Some(D20251340)]

RollupRow6 ==
    [BlankRow EXCEPT !.decl_no = Some(4), !.author = Str(""),
        !.importer = Str("I2"), !.forwarder = Str("F2"),
        !.lanes = Some(3), !.fta = Str("Y"), !.req_count = Some(1),
        !.cs = Str("N"), !.accept_date = Some(D20250725)]

RollupRows ==
    {RollupRow1, RollupRow2, RollupRow3, RollupRow4, RollupRow5, RollupRow6}

\* the column layouts of the rollup datasets: every layout of the
\* requirement columns, and every single grouping column left out
RollupLayouts ==
    {BaseColumns \cup {"accept_date"} \cup req :
        req \in {{}, {"doc_name"}, {"doc_name_sp", "req_count"},
                 {"req_count"}}}
    \cup {(BaseColumns \ {c}) \cup {"accept_date"} :
            c \in {"author", "importer", "forwarder", "cs"}}

RollupInputs ==
    {[df |-> Project(rows, cols), columns |-> cols, weights |-> NULL] :
        rows \in SeqsUpTo(RollupRows, MaxRollupRows), cols \in RollupLayouts}

(***************************************************************************)
(* The analysis run of main: CustomsAnalyzer(df, weights), then the        *)
(* analyses in main's order.  An exception anywhere ends the run.          *)
(***************************************************************************)
Init ==
    /\ \E inp \in Inputs :
          /\ src_df = inp.df
          /\ src_columns = inp.columns
          /\ src_blank = 0
          /\ src_weights = inp.weights
    /\ pc = "new"
    /\ df = << >>
    /\ columns = {}
    /\ weights = DefaultWeights
    /\ selected = "none"
    /\ screen = << >>
    /\ session_state = InitialSession
    /\ weight_log = << >>
    /\ call_log = << >>
    /\ author_df = << >>
    /\ importer_df = << >>
    /\ forwarder_df = << >>
    /\ cs_df = << >>
    /\ cs_stats = NULL
    /\ scorer_calls = << >>
    /\ vc_in = << >>
    /\ vc_kept = << >>

\* CustomsAnalyzer.__init__ up to prepare_data: [error, selected, df, columns]
Constructed(data, blank, cols) ==
    prepare_data(Project(data, PrunedColumns(Len(data) + blank, cols)),
                 PrunedColumns(Len(data) + blank, cols))

\* CustomsAnalyzer.__init__
Construct ==
    /\ pc = "new"
    /\ \E p \in {Constructed(src_df, src_blank, src_columns)} :
          IF p.error
          THEN /\ pc' = "failed"
               /\ UNCHANGED <<df, columns, weights, selected>>
          ELSE /\ pc' = "ready"
               /\ df' = p.df
               /\ columns' = p.columns
               /\ weights' = InitWeights(src_weights)
               /\ selected' = p.selected
    /\ UNCHANGED <<call_log, session_state, weight_log, screen, src_df, src_blank, src_columns, src_weights, author_df, importer_df,
                   forwarder_df, scorer_calls, vc_in, vc_kept,
                   cs_df, cs_stats>>

AnalyzeByAuthor ==
    /\ pc = "ready"
    /\ IF RollupRaises(df, columns, "author", AuthorCap,
                       ScorerColumns \cup {"importer"})
       THEN pc' = "failed" /\ UNCHANGED <<author_df, scorer_calls>>
       ELSE /\ pc' = "author_done"
            /\ author_df' = analyze_by_author(df, columns, weights)
            /\ scorer_calls' =
                  RollupCalls(df, columns, weights, "author", AuthorCap)
    /\ UNCHANGED <<call_log, session_state, weight_log, screen, src_df, src_blank, src_columns, src_weights, df, columns, weights,
                   selected, importer_df, forwarder_df, vc_in, vc_kept,
                   cs_df, cs_stats>>

AnalyzeByImporter ==
    /\ pc = "author_done"
    /\ IF RollupRaises(df, columns, "importer", ImporterCap,
                       ScorerColumns \cup {"author"})
       THEN pc' = "failed" /\ UNCHANGED <<importer_df, scorer_calls>>
       ELSE /\ pc' = "importer_done"
            /\ importer_df' = analyze_by_importer(df, columns, weights)
            /\ scorer_calls' =
                  RollupCalls(df, columns, weights, "importer", ImporterCap)
    /\ UNCHANGED <<call_log, session_state, weight_log, screen, src_df, src_blank, src_columns, src_weights, df, columns, weights,
                   selected, author_df, forwarder_df, vc_in, vc_kept,
                   cs_df, cs_stats>>

AnalyzeByForwarder ==
    /\ pc = "importer_done"
    /\ IF RollupRaises(df, columns, "forwarder", ForwarderCap,
                       ScorerColumns \cup {"author", "importer"})
       THEN pc' = "failed" /\ UNCHANGED <<forwarder_df, scorer_calls>>
       ELSE /\ pc' = "forwarder_done"
            /\ forwarder_df' = analyze_by_forwarder(df, columns, weights)
            /\ scorer_calls' =
                  RollupCalls(df, columns, weights, "forwarder", ForwarderCap)
    /\ UNCHANGED <<call_log, session_state, weight_log, screen, src_df, src_blank, src_columns, src_weights, df, columns, weights,
                   selected, author_df, importer_df, vc_in, vc_kept,
                   cs_df, cs_stats>>

AnalyzeCsInspection ==
    /\ pc = "forwarder_done"
    /\ pc' = "cs_done"
    /\ cs_df' = analyze_cs_inspection(df, columns).table
    /\ cs_stats' = analyze_cs_inspection(df, columns).stats
    /\ UNCHANGED <<call_log, session_state, weight_log, screen, src_df, src_blank, src_columns, src_weights, df, columns, weights,
                   selected, author_df, importer_df, forwarder_df,
                   scorer_calls, vc_in, vc_kept>>

Next ==
    \/ Construct
    \/ AnalyzeByAuthor
    \/ AnalyzeByImporter
    \/ AnalyzeByForwarder
    \/ AnalyzeCsInspection

Spec == Init /\ [][Next]_vars

\* the analysis run on the rollup datasets
InitRollup ==
    /\ \E inp \in RollupInputs :
          /\ src_df = inp.df
          /\ src_columns = inp.columns
          /\ src_blank = 0
          /\ src_weights = inp.weights
    /\ pc = "new"
    /\ df = << >>
    /\ columns = {}
    /\ weights = DefaultWeights
    /\ selected = "none"
    /\ screen = << >>
    /\ session_state = InitialSession
    /\ weight_log = << >>
    /\ call_log = << >>
    /\ author_df = << >>
    /\ importer_df = << >>
    /\ forwarder_df = << >>
    /\ cs_df = << >>
    /\ cs_stats = NULL
    /\ scorer_calls = << >>
    /\ vc_in = << >>
    /\ vc_kept = << >>

SpecRollup == InitRollup /\ [][Next]_vars

(***************************************************************************)
(* The scale guard on a dataset given by its value-count table in          *)
(* run-length form (lines 308-312 of calculate_complexity_score): the      *)
(* table is sorted as value_counts() sorts it and cut by head(DeclCap).    *)
(***************************************************************************)
CountClasses ==
    [rows : 1..MaxLineRows,
     decls : {1, DeclCap \div 2, DeclCap - 1, DeclCap + 1}]

InitCap ==
    /\ \E classes \in SeqsUpTo(CountClasses, MaxClasses) :
          vc_in = [i \in 1..Len(classes) |->
                     [key |-> Some(i), rows |-> classes[i].rows,
                      decls |-> classes[i].decls]]
    /\ pc = "cap_new"
    /\ src_df = << >>
    /\ src_blank = 0
    /\ src_columns = {}
    /\ src_weights = NULL
    /\ df = << >>
    /\ columns = {}
    /\ weights = DefaultWeights
    /\ selected = "none"
    /\ screen = << >>
    /\ session_state = InitialSession
    /\ weight_log = << >>
    /\ call_log = << >>
    /\ author_df = << >>
    /\ importer_df = << >>
    /\ forwarder_df = << >>
    /\ cs_df = << >>
    /\ cs_stats = NULL
    /\ scorer_calls = << >>
    /\ vc_kept = << >>

ScaleGuardCounts ==
    /\ pc = "cap_new"
    /\ pc' = "capped"
    /\ vc_kept' = CapDeclarations(SortByCountDesc(vc_in))
    /\ UNCHANGED <<call_log, session_state, weight_log, screen, src_df, src_blank, src_columns, src_weights, df, columns, weights,
                   selected, author_df, importer_df, forwarder_df,
                   scorer_calls, vc_in,
                   cs_df, cs_stats>>

NextCap == ScaleGuardCounts

SpecCap == InitCap /\ [][NextCap]_vars

(***************************************************************************)
(* The entity cap of the rollups on the value-count table of a grouping    *)
(* column in run-length form (`decls` entities with `rows` rows each): the *)
(* table is sorted as value_counts() sorts it and cut by head(cap); the    *)
(* rollup then loops over the entities kept.                               *)
(***************************************************************************)
EntityClasses ==
    [rows : 1..MaxEntityRows,
     decls : {1, AuthorCap - 1, AuthorCap + 1, ImporterCap + 1}]

InitEntityCap ==
    /\ \E classes \in SeqsUpTo(EntityClasses, MaxEntityClasses) :
          vc_in = [i \in 1..Len(classes) |->
                     [key |-> Some(i), rows |-> classes[i].rows,
                      decls |-> classes[i].decls]]
    /\ pc = "entities"
    /\ src_df = << >>
    /\ src_blank = 0
    /\ src_columns = {}
    /\ src_weights = NULL
    /\ df = << >>
    /\ columns = {}
    /\ weights = DefaultWeights
    /\ selected = "none"
    /\ screen = << >>
    /\ session_state = InitialSession
    /\ weight_log = << >>
    /\ call_log = << >>
    /\ author_df = << >>
    /\ importer_df = << >>
    /\ forwarder_df = << >>
    /\ cs_df = << >>
    /\ cs_stats = NULL
    /\ scorer_calls = << >>
    /\ vc_kept = << >>

CapAuthors ==
    /\ pc = "entities"
    /\ pc' = "authors_capped"
    /\ vc_kept' = CapEntities(SortByCountDesc(vc_in), AuthorCap)
    /\ UNCHANGED <<call_log, session_state, weight_log, screen, src_df, src_blank, src_columns, src_weights, df, columns, weights,
                   selected, author_df, importer_df, forwarder_df,
                   scorer_calls, vc_in, cs_df, cs_stats>>

CapImporters ==
    /\ pc = "entities"
    /\ pc' = "importers_capped"
    /\ vc_kept' = CapEntities(SortByCountDesc(vc_in), ImporterCap)
    /\ UNCHANGED <<call_log, session_state, weight_log, screen, src_df, src_blank, src_columns, src_weights, df, columns, weights,
                   selected, author_df, importer_df, forwarder_df,
                   scorer_calls, vc_in, cs_df, cs_stats>>

CapForwarders ==
    /\ pc = "entities"
    /\ pc' = "forwarders_capped"
    /\ vc_kept' = CapEntities(SortByCountDesc(vc_in), ForwarderCap)
    /\ UNCHANGED <<call_log, session_state, weight_log, screen, src_df, src_blank, src_columns, src_weights, df, columns, weights,
                   selected, author_df, importer_df, forwarder_df,
                   scorer_calls, vc_in, cs_df, cs_stats>>

NextEntityCap == CapAuthors \/ CapImporters \/ CapForwarders

SpecEntityCap == InitEntityCap /\ [][NextEntityCap]_vars

(***************************************************************************)
(* The analysis run on datasets that vary the declaration number and the   *)
(* inspection code of each line row.                                       *)
(***************************************************************************)
CsRow(d, c) ==
    [BlankRow EXCEPT !.decl_no = d, !.cs = c, !.author = Some("A1"),
                     !.importer = Some("I1"), !.forwarder = Some("F1"),
                     !.accept_date = Str(D20250721)]

CsRows ==
    {CsRow(Some(1), Some("N")), CsRow(Some(2), Some("N")),
     CsRow(Some(1), Some("Y")), CsRow(Some(3), Some("C")),
     CsRow(Some(1), NULL), CsRow(NULL, Some("N")),
     CsRow(Some(3), Some("F")), CsRow(Some(3), Some("S")),
     CsRow(Some(2), Some("X"))}

CsInputs ==
    {[df |-> Project(rows, cols), columns |-> cols, weights |-> NULL] :
        rows \in SeqsUpTo(CsRows, MaxCsRows),
        cols \in {BaseColumns \cup {"accept_date"}}}

InitInspection ==
    /\ \E inp \in CsInputs :
          /\ src_df = inp.df
          /\ src_columns = inp.columns
          /\ src_blank = 0
          /\ src_weights = inp.weights
    /\ pc = "new"
    /\ df = << >>
    /\ columns = {}
    /\ weights = DefaultWeights
    /\ selected = "none"
    /\ screen = << >>
    /\ session_state = InitialSession
    /\ weight_log = << >>
    /\ call_log = << >>
    /\ author_df = << >>
    /\ importer_df = << >>
    /\ forwarder_df = << >>
    /\ cs_df = << >>
    /\ cs_stats = NULL
    /\ scorer_calls = << >>
    /\ vc_in = << >>
    /\ vc_kept = << >>

SpecInspection == InitInspection /\ [][Next]_vars

(***************************************************************************)
(* The labelling, sorting and summary of analyze_cs_inspection on the      *)
(* per-code sizes of the deduplicated declarations.                        *)
(***************************************************************************)
CsKinds == <<"N", "Y", "C", "X", "F", "S">>

CsCountValues == {0, 1, 2, 5, 10, 85}

\* groupby('cs').size() for the counts n: codes ascending, none of size 0
CsSizes(n) ==
    LET keys == SelectSeq(CsAlphabet, LAMBDA c : c \in DOMAIN n /\ n[c] > 0)
    IN [i \in 1..Len(keys) |-> [code |-> keys[i], count |-> n[keys[i]]]]

InitCsSizes ==
    /\ \E n \in [{CsKinds[i] : i \in 1..MaxCsKinds} -> CsCountValues] :
          vc_in = CsSizes(n)
    /\ pc = "sizes"
    /\ src_df = << >>
    /\ src_blank = 0
    /\ src_columns = {}
    /\ src_weights = NULL
    /\ df = << >>
    /\ columns = {}
    /\ weights = DefaultWeights
    /\ selected = "none"
    /\ screen = << >>
    /\ session_state = InitialSession
    /\ weight_log = << >>
    /\ call_log = << >>
    /\ author_df = << >>
    /\ importer_df = << >>
    /\ forwarder_df = << >>
    /\ cs_df = << >>
    /\ cs_stats = NULL
    /\ scorer_calls = << >>
    /\ vc_kept = << >>

SummariseInspection ==
    /\ pc = "sizes"
    /\ pc' = "summarised"
    /\ cs_df' = CsLabelled(vc_in)
    /\ cs_stats' = Some(CsStats(CsLabelled(vc_in),
                  SumSeq([i \in 1..Len(vc_in) |-> vc_in[i].count])))
    /\ UNCHANGED <<call_log, session_state, weight_log, screen, src_df, src_blank, src_columns, src_weights, df, columns, weights,
                   selected, author_df, importer_df, forwarder_df,
                   scorer_calls, vc_in, vc_kept>>

NextCsSizes == SummariseInspection

SpecCsSizes == InitCsSizes /\ [][NextCsSizes]_vars

(***************************************************************************)
(* The analysis run on datasets around the pruning threshold: a few line   *)
(* rows followed by rows that are null in every column.  "memo" is a       *)
(* source column that nothing reads.                                       *)
(***************************************************************************)
PruneLayouts ==
    {BaseColumns \cup {"accept_date"} \cup req \cup extra :
        req \in SUBSET ReqColumns, extra \in {{}, {"memo"}}}

\* the numbers of all-null rows that bring a frame of n rows to no rows
\* more, to the threshold, and one past it
PruneBlanks(n) == {0, PruneThreshold - n, PruneThreshold + 1 - n}

PruneInputs ==
    {[df |-> Project(rows, cols), columns |-> cols, weights |-> NULL] :
        rows \in SeqsUpTo(RollupRows, MaxPruneRows), cols \in PruneLayouts}

InitPrune ==
    /\ \E inp \in PruneInputs :
          /\ src_df = inp.df
          /\ src_columns = inp.columns
          /\ src_weights = inp.weights
          /\ src_blank \in PruneBlanks(Len(inp.df))
    /\ pc = "new"
    /\ df = << >>
    /\ columns = {}
    /\ weights = DefaultWeights
    /\ selected = "none"
    /\ screen = << >>
    /\ session_state = InitialSession
    /\ weight_log = << >>
    /\ call_log = << >>
    /\ author_df = << >>
    /\ importer_df = << >>
    /\ forwarder_df = << >>
    /\ cs_df = << >>
    /\ cs_stats = NULL
    /\ scorer_calls = << >>
    /\ vc_in = << >>
    /\ vc_kept = << >>

SpecPrune == InitPrune /\ [][Next]_vars

(***************************************************************************)
(* The run of main for an uploaded file: loading, the analysis run inside  *)
(* the try block, and what main then puts on the page.                     *)
(***************************************************************************)
RunInputs ==
    {[df |-> Project(rows, cols), columns |-> cols, weights |-> NULL] :
        rows \in SeqsUpTo(RollupRows, MaxRunRows), cols \in RollupLayouts}

InitRun ==
    /\ \E inp \in RunInputs :
          /\ src_df = inp.df
          /\ src_columns = inp.columns
          /\ src_weights = inp.weights
          /\ src_blank = 0
    /\ pc = "uploaded"
    /\ df = << >>
    /\ columns = {}
    /\ weights = DefaultWeights
    /\ selected = "none"
    /\ screen = << >>
    /\ session_state = InitialSession
    /\ weight_log = << >>
    /\ call_log = << >>
    /\ author_df = << >>
    /\ importer_df = << >>
    /\ forwarder_df = << >>
    /\ cs_df = << >>
    /\ cs_stats = NULL
    /\ scorer_calls = << >>
    /\ vc_in = << >>
    /\ vc_kept = << >>

\* df = pd.read_excel(uploaded_file): it returns the frame or raises
Load ==
    /\ pc = "uploaded"
    /\ pc' \in {"new", "failed"}
    /\ UNCHANGED <<call_log, session_state, weight_log, screen, src_df, src_blank, src_columns, src_weights, df,
                   columns, weights, selected, author_df, importer_df,
                   forwarder_df, cs_df, cs_stats, scorer_calls, vc_in,
                   vc_kept>>

\* the names of the result tables that are not empty, in tab order
TablesToShow(a, i, f, c) ==
    (IF a # << >> THEN <<"author">> ELSE << >>)
    \o (IF i # << >> THEN <<"importer">> ELSE << >>)
    \o (IF f # << >> THEN <<"forwarder">> ELSE << >>)
    \o (IF c # << >> THEN <<"inspection">> ELSE << >>)

\* except Exception as e: st.error(...); return
ReportError ==
    /\ pc = "failed"
    /\ pc' = "reported"
    /\ screen' = Append(screen, "error")
    /\ UNCHANGED <<call_log, session_state, weight_log, src_df, src_blank, src_columns, src_weights, df,
                   columns, weights, selected, author_df, importer_df,
                   forwarder_df, cs_df, cs_stats, scorer_calls, vc_in,
                   vc_kept>>

\* all four tables empty: st.error(...); return
ReportNoData ==
    /\ pc = "cs_done"
    /\ TablesToShow(author_df, importer_df, forwarder_df, cs_df) = << >>
    /\ pc' = "no_data"
    /\ screen' = Append(screen, "no_data")
    /\ UNCHANGED <<call_log, session_state, weight_log, src_df, src_blank, src_columns, src_weights, df,
                   columns, weights, selected, author_df, importer_df,
                   forwarder_df, cs_df, cs_stats, scorer_calls, vc_in,
                   vc_kept>>

\* the tabs shown once the three rollups have returned
ShowTablesEarly ==
    /\ pc = "forwarder_done"
    /\ TablesToShow(author_df, importer_df, forwarder_df, cs_df) # << >>
    /\ pc' = "shown"
    /\ screen' = screen \o
                 TablesToShow(author_df, importer_df, forwarder_df, cs_df)
    /\ UNCHANGED <<call_log, session_state, weight_log, src_df, src_blank, src_columns, src_weights, df,
                   columns, weights, selected, author_df, importer_df,
                   forwarder_df, cs_df, cs_stats, scorer_calls, vc_in,
                   vc_kept>>

\* the four tabs after the try block: each table that is not empty
ShowTables ==
    /\ pc = "cs_done"
    /\ TablesToShow(author_df, importer_df, forwarder_df, cs_df) # << >>
    /\ pc' = "shown"
    /\ screen' = screen \o
                 TablesToShow(author_df, importer_df, forwarder_df, cs_df)
    /\ UNCHANGED <<call_log, session_state, weight_log, src_df, src_blank, src_columns, src_weights, df,
                   columns, weights, selected, author_df, importer_df,
                   forwarder_df, cs_df, cs_stats, scorer_calls, vc_in,
                   vc_kept>>

NextRun ==
    \/ Load
    \/ Construct
    \/ AnalyzeByAuthor
    \/ AnalyzeByImporter
    \/ AnalyzeByForwarder
    \/ AnalyzeCsInspection
    \/ ReportError
    \/ ReportNoData
    \/ ShowTables

SpecRun == InitRun /\ [][NextRun]_vars

(***************************************************************************)
(* The analysis run with update_weights calls between the construction and *)
(* the analyses.                                                           *)
(***************************************************************************)
WeightInputs ==
    {[df |-> Project(rows, BaseColumns \cup {"accept_date", "doc_name"}),
      columns |-> BaseColumns \cup {"accept_date", "doc_name"},
      weights |-> w] :
        rows \in {<<ScoreRow1>>, <<ScoreRow1, ScoreRow2>>},
        w \in {NULL, Some(AltWeights)}}

\* the arguments of update_weights: dicts naming none, some or all of the
\* coefficients
UpdateArgs ==
    {[k \in {} |-> 0],
     [k \in {"lane_weight"} |-> 20],
     [k \in {"lane_weight"} |-> 30],
     [k \in {"lane_weight", "fta_weight"} |-> 40],
     [k \in {"trader_weight"} |-> 70],
     AltWeights}

InitWeightsRun ==
    /\ \E inp \in WeightInputs :
          /\ src_df = inp.df
          /\ src_columns = inp.columns
          /\ src_weights = inp.weights
          /\ src_blank = 0
    /\ pc = "new"
    /\ df = << >>
    /\ columns = {}
    /\ weights = DefaultWeights
    /\ selected = "none"
    /\ screen = << >>
    /\ session_state = InitialSession
    /\ weight_log = << >>
    /\ call_log = << >>
    /\ author_df = << >>
    /\ importer_df = << >>
    /\ forwarder_df = << >>
    /\ cs_df = << >>
    /\ cs_stats = NULL
    /\ scorer_calls = << >>
    /\ vc_in = << >>
    /\ vc_kept = << >>

\* analyzer.update_weights(u)
UpdateWeights ==
    /\ pc = "ready"
    /\ Len(weight_log) < MaxUpdates
    /\ \E u \in UpdateArgs :
          /\ weights' = update_weights(weights, u)
          /\ weight_log' = Append(weight_log, u)
    /\ UNCHANGED <<call_log, session_state, screen, src_df, src_blank, src_columns,
                   src_weights, pc, df, columns, selected, author_df,
                   importer_df, forwarder_df, cs_df, cs_stats, scorer_calls,
                   vc_in, vc_kept>>

NextWeights ==
    \/ Construct
    \/ UpdateWeights
    \/ AnalyzeByAuthor
    \/ AnalyzeByImporter
    \/ AnalyzeByForwarder
    \/ AnalyzeCsInspection

SpecWeights == InitWeightsRun /\ [][NextWeights]_vars

(***************************************************************************)
(* The four analyses invoked on one analyzer in any order and any number   *)
(* of times.                                                               *)
(***************************************************************************)
OrderLayouts ==
    {BaseColumns \cup {"accept_date", "doc_name"},
     (BaseColumns \ {"forwarder"}) \cup {"accept_date", "req_count"}}

OrderInputs ==
    {[df |-> Project(rows, cols), columns |-> cols, weights |-> w] :
        rows \in SeqsUpTo(RollupRows, MaxOrderRows) \cup
                 {<<RollupRow1, RollupRow6>>},
        cols \in OrderLayouts, w \in {NULL, Some(AltWeights)}}

InitAnyOrder ==
    /\ \E inp \in OrderInputs :
          /\ src_df = inp.df
          /\ src_columns = inp.columns
          /\ src_weights = inp.weights
          /\ src_blank = 0
    /\ pc = "new"
    /\ df = << >>
    /\ columns = {}
    /\ weights = DefaultWeights
    /\ selected = "none"
    /\ screen = << >>
    /\ session_state = InitialSession
    /\ weight_log = << >>
    /\ call_log = << >>
    /\ author_df = << >>
    /\ importer_df = << >>
    /\ forwarder_df = << >>
    /\ cs_df = << >>
    /\ cs_stats = NULL
    /\ scorer_calls = << >>
    /\ vc_in = << >>
    /\ vc_kept = << >>

\* analyze_by_author that keeps its filtered rows in self.df
CallAuthorKeepingValid ==
    /\ pc = "ready"
    /\ Len(call_log) < MaxCalls
    /\ call_log' = Append(call_log, "author")
    /\ df' = IF "author" \in columns
             THEN EntityCap(ValidData(df, "author"), "author", AuthorCap)
             ELSE df
    /\ IF RollupRaises(df, columns, "author", AuthorCap,
                       ScorerColumns \cup {"importer"})
       THEN pc' = "failed" /\ UNCHANGED <<author_df, scorer_calls>>
       ELSE /\ pc' = pc
            /\ author_df' = analyze_by_author(df, columns, weights)
            /\ scorer_calls' =
                  RollupCalls(df, columns, weights, "author", AuthorCap)
    /\ UNCHANGED <<session_state, weight_log, screen, src_df, src_blank,
                   src_columns, src_weights, columns, weights, selected,
                   importer_df, forwarder_df, cs_df, cs_stats, vc_in, vc_kept>>

\* analyzer.analyze_by_author()
CallAuthor ==
    /\ pc = "ready"
    /\ Len(call_log) < MaxCalls
    /\ call_log' = Append(call_log, "author")
    /\ IF RollupRaises(df, columns, "author", AuthorCap,
                       ScorerColumns \cup {"importer"})
       THEN pc' = "failed" /\ UNCHANGED <<author_df, scorer_calls>>
       ELSE /\ pc' = pc
            /\ author_df' = analyze_by_author(df, columns, weights)
            /\ scorer_calls' =
                  RollupCalls(df, columns, weights, "author", AuthorCap)
    /\ UNCHANGED <<session_state, weight_log, screen, src_df, src_blank,
                   src_columns, src_weights, df, columns, weights, selected,
                   importer_df, forwarder_df, cs_df, cs_stats, vc_in, vc_kept>>

\* analyzer.analyze_by_importer()
CallImporter ==
    /\ pc = "ready"
    /\ Len(call_log) < MaxCalls
    /\ call_log' = Append(call_log, "importer")
    /\ IF RollupRaises(df, columns, "importer", ImporterCap,
                       ScorerColumns \cup {"author"})
       THEN pc' = "failed" /\ UNCHANGED <<importer_df, scorer_calls>>
       ELSE /\ pc' = pc
            /\ importer_df' = analyze_by_importer(df, columns, weights)
            /\ scorer_calls' =
                  RollupCalls(df, columns, weights, "importer", ImporterCap)
    /\ UNCHANGED <<session_state, weight_log, screen, src_df, src_blank,
                   src_columns, src_weights, df, columns, weights, selected,
                   author_df, forwarder_df, cs_df, cs_stats, vc_in, vc_kept>>

\* analyzer.analyze_by_forwarder()
CallForwarder ==
    /\ pc = "ready"
    /\ Len(call_log) < MaxCalls
    /\ call_log' = Append(call_log, "forwarder")
    /\ IF RollupRaises(df, columns, "forwarder", ForwarderCap,
                       ScorerColumns \cup {"author", "importer"})
       THEN pc' = "failed" /\ UNCHANGED <<forwarder_df, scorer_calls>>
       ELSE /\ pc' = pc
            /\ forwarder_df' = analyze_by_forwarder(df, columns, weights)
            /\ scorer_calls' =
                  RollupCalls(df, columns, weights, "forwarder", ForwarderCap)
    /\ UNCHANGED <<session_state, weight_log, screen, src_df, src_blank,
                   src_columns, src_weights, df, columns, weights, selected,
                   author_df, importer_df, cs_df, cs_stats, vc_in, vc_kept>>

\* analyzer.analyze_cs_inspection()
CallCsInspection ==
    /\ pc = "ready"
    /\ Len(call_log) < MaxCalls
    /\ call_log' = Append(call_log, "inspection")
    /\ cs_df' = analyze_cs_inspection(df, columns).table
    /\ cs_stats' = analyze_cs_inspection(df, columns).stats
    /\ UNCHANGED <<session_state, weight_log, screen, src_df, src_blank,
                   src_columns, src_weights, pc, df, columns, weights,
                   selected, author_df, importer_df, forwarder_df,
                   scorer_calls, vc_in, vc_kept>>

NextAnyOrder ==
    \/ Construct
    \/ CallAuthor
    \/ CallImporter
    \/ CallForwarder
    \/ CallCsInspection

SpecAnyOrder == InitAnyOrder /\ [][NextAnyOrder]_vars

(***************************************************************************)
(* The sidebar of main.  Every sidebar action reruns the script: the       *)
(* widgets take their values, the toggle branch saves 'custom_weights',    *)
(* and with a file uploaded the analysis run starts with the weights       *)
(* chosen at lines 1487-1499.                                              *)
(***************************************************************************)
\* the three preset profiles, in tenths
Presets ==
    {DefaultWeights,
     [lane_weight |-> 5, spec_weight |-> 3, requirement_weight |-> 50,
      exemption_weight |-> 50, fta_weight |-> 50,
      transaction_weight |-> 20, trader_weight |-> 20],
     [lane_weight |-> 20, spec_weight |-> 10, requirement_weight |-> 200,
      exemption_weight |-> 200, fta_weight |-> 200,
      transaction_weight |-> 100, trader_weight |-> 100]}

\* the weight inputs that are edited, and the values typed into them
EditedInputs == {"lane_weight"}

TypedValues == {30, 70}

\* if use_custom_weights: st.session_state['custom_weights'] = {...}
SaveCustomWeights(ss) ==
    IF ss.use_custom_weights
    THEN [ss EXCEPT !.custom_weights = Some(ss.inputs)]
    ELSE ss

\* the weights main passes to CustomsAnalyzer
PassedWeights(ss) ==
    IF ss.custom_weights # NULL THEN ss.custom_weights[1] ELSE ss.inputs

\* one run of the script on the widget state ss
Rerun(ss) ==
    /\ session_state' = SaveCustomWeights(ss)
    /\ IF ss.uploaded_file
       THEN /\ pc' = "new"
            /\ src_weights' = Some(PassedWeights(SaveCustomWeights(ss)))
       ELSE /\ pc' = "idle"
            /\ UNCHANGED src_weights
    /\ df' = << >>
    /\ columns' = {}
    /\ weights' = DefaultWeights
    /\ selected' = "none"
    /\ author_df' = << >>
    /\ importer_df' = << >>
    /\ forwarder_df' = << >>
    /\ cs_df' = << >>
    /\ cs_stats' = NULL
    /\ scorer_calls' = << >>
    /\ UNCHANGED <<call_log, weight_log, screen, src_df, src_blank,
                   src_columns, vc_in, vc_kept>>

\* the script is not in an analysis run
ScriptDone == pc \in {"idle", "cs_done", "failed"}

InitSidebar ==
    /\ src_df = Project(<<ScoreRow1>>,
                        BaseColumns \cup {"accept_date", "doc_name"})
    /\ src_columns = BaseColumns \cup {"accept_date", "doc_name"}
    /\ src_weights = NULL
    /\ src_blank = 0
    /\ pc = "idle"
    /\ df = << >>
    /\ columns = {}
    /\ weights = DefaultWeights
    /\ selected = "none"
    /\ screen = << >>
    /\ session_state = InitialSession
    /\ weight_log = << >>
    /\ call_log = << >>
    /\ author_df = << >>
    /\ importer_df = << >>
    /\ forwarder_df = << >>
    /\ cs_df = << >>
    /\ cs_stats = NULL
    /\ scorer_calls = << >>
    /\ vc_in = << >>
    /\ vc_kept = << >>

\* a value typed into one of the seven st.number_input widgets
EditWeight ==
    /\ ScriptDone
    /\ \E k \in EditedInputs, v \in TypedValues :
          Rerun([session_state EXCEPT !.inputs[k] = v])

\* a preset-profile button: the seven assignments and st.rerun(), or the
\* exception the framework raises for a key whose widget already exists
PressPreset ==
    /\ ScriptDone
    /\ \/ \E p \in Presets : Rerun([session_state EXCEPT !.inputs = p])
       \/ UNCHANGED vars

\* the custom-weights st.toggle
SwitchToggle ==
    /\ ScriptDone
    /\ Rerun([session_state EXCEPT
                 !.use_custom_weights = ~session_state.use_custom_weights])

\* st.file_uploader receives a file
UploadFile ==
    /\ ScriptDone
    /\ Rerun([session_state EXCEPT !.uploaded_file = TRUE])

NextSidebar ==
    \/ EditWeight
    \/ PressPreset
    \/ SwitchToggle
    \/ UploadFile
    \/ Construct
    \/ AnalyzeByAuthor
    \/ AnalyzeByImporter
    \/ AnalyzeByForwarder
    \/ AnalyzeCsInspection

SpecSidebar == InitSidebar /\ [][NextSidebar]_vars

(***************************************************************************)
(* Reference definitions for the properties below.  They restate the       *)
(* documented behaviour over sets of row indices, independently of the     *)
(* operators above.                                                        *)
(***************************************************************************)
\* the sum of an integer-valued function over its (finite) domain
SumFn(f) ==
    LET RECURSIVE S(_)
        S(D) == IF D = {} THEN 0
                ELSE LET x == CHOOSE x \in D : TRUE IN f[x] + S(D \ {x})
    IN S(DOMAIN f)

MinOf(S) == CHOOSE x \in S : \A y \in S : x <= y

\* the distinct non-null declaration numbers of a row subset
RefDeclIds(data) == {data[i].decl_no : i \in 1..Len(data)} \ {NULL}

\* the line rows (indices) of one declaration
RefLines(data, id) == {i \in 1..Len(data) : data[i].decl_no = id}

\* take-first of field f over the lines I: the first non-null cell
RefFirst(data, I, f) ==
    IF {i \in I : data[i][f] # NULL} = {} THEN NULL
    ELSE data[MinOf({i \in I : data[i][f] # NULL})][f]

\* count-of-distinct of field f over the lines I
RefDistinct(data, I, f) == Cardinality({data[i][f] : i \in I} \ {NULL})

\* the requirement-document count of a declaration
RefRequirement(data, I, cols) ==
    IF "doc_name" \in cols
    THEN Cardinality({i \in I : data[i].doc_name # NULL})
    ELSE IF "doc_name_sp" \in cols
    THEN Cardinality({i \in I : data[i].doc_name_sp # NULL})
    ELSE IF "req_count" \in cols /\ RefFirst(data, I, "req_count") # NULL
    THEN RefFirst(data, I, "req_count")[1]
    ELSE 0

RefCount(data, I, f) ==
    IF RefFirst(data, I, f) = NULL THEN 0 ELSE RefFirst(data, I, f)[1]

\* the exemption code is non-null and non-blank
RefHasExemption(data, I) ==
    /\ RefFirst(data, I, "exemption") # NULL
    /\ \E k \in 1..Len(RefFirst(data, I, "exemption")[1]) :
          RefFirst(data, I, "exemption")[1][k] # " "

RefIsFta(data, I) == RefFirst(data, I, "fta") = <<"Y">>

\* the five terms of the formula that do not count distinct values
RefFixedPart(data, I, cols, w) ==
    RefCount(data, I, "lanes") * w.lane_weight
    + RefCount(data, I, "specs") * w.spec_weight
    + RefRequirement(data, I, cols) * w.requirement_weight
    + (IF RefHasExemption(data, I) THEN w.exemption_weight ELSE 0)
    + (IF RefIsFta(data, I) THEN w.fta_weight ELSE 0)

\* the seven-term formula of one declaration
RefScore(data, I, cols, w) ==
    RefFixedPart(data, I, cols, w)
    + RefDistinct(data, I, "txn") * w.transaction_weight
    + RefDistinct(data, I, "trader") * w.trader_weight

Calls == {scorer_calls[i] : i \in 1..Len(scorer_calls)}

\* the worked example of the documentation: one declaration, lane 10,
\* spec 20, requirement 2, exemption present, flag Y, 2 transaction types,
\* 3 trading partners, default weights
IsExample(call) ==
    /\ weights = DefaultWeights
    /\ Cardinality(RefDeclIds(call.arg)) = 1
    /\ \A id \in RefDeclIds(call.arg) :
          /\ RefCount(call.arg, RefLines(call.arg, id), "lanes") = 10
          /\ RefCount(call.arg, RefLines(call.arg, id), "specs") = 20
          /\ RefRequirement(call.arg, RefLines(call.arg, id), columns) = 2
          /\ RefHasExemption(call.arg, RefLines(call.arg, id))
          /\ RefIsFta(call.arg, RefLines(call.arg, id))
          /\ RefDistinct(call.arg, RefLines(call.arg, id), "txn") = 2
          /\ RefDistinct(call.arg, RefLines(call.arg, id), "trader") = 3

\* C1: every declaration's score is the seven-term weighted sum, and the
\* worked example (default weights) scores 85.0.
C1_ScoreFormula ==
    \A call \in Calls :
        /\ \A k \in 1..Len(call.scores) :
              call.scores[k] =
                  RefScore(call.arg,
                           RefLines(call.arg, call.decl_grouped[k].decl_no),
                           columns, weights)
        /\ IsExample(call) => call.result = [num |-> 850, den |-> 1]

C1_Witness ==
    \E call \in Calls : IsExample(call) /\ call.result.num = 850

\* a declaration none of whose lines has a transaction type or a trading
\* partner
RefNoParties(data, I) ==
    /\ RefDistinct(data, I, "txn") = 0
    /\ RefDistinct(data, I, "trader") = 0

\* C2: a declaration with no transaction-type and no trading-partner value
\* still contributes 1*Wtxn + 1*Wtrader; missing lane, spec and requirement
\* values contribute 0.
C2_DefaultOne ==
    \A call \in Calls :
        \A k \in 1..Len(call.scores) :
            RefNoParties(call.arg,
                         RefLines(call.arg, call.decl_grouped[k].decl_no))
            => call.scores[k] =
                  RefFixedPart(call.arg,
                      RefLines(call.arg, call.decl_grouped[k].decl_no),
                      columns, weights)
                  + weights.transaction_weight + weights.trader_weight

\* the sum of the reference scores of the declarations of a row subset
RefTotal(data, cols, w) ==
    SumFn([id \in RefDeclIds(data) |->
              RefScore(data, RefLines(data, id), cols, w)])

\* C3: the value returned is the arithmetic mean of the per-declaration
\* scores of the subset (result * count = total), and 0 for a subset with
\* no declaration.
C3_Mean ==
    \A call \in Calls :
        /\ call.result.den > 0
        /\ RefDeclIds(call.arg) = {} => call.result.num = 0
        /\ call.result.num * Cardinality(RefDeclIds(call.arg))
              = RefTotal(call.arg, columns, weights) * call.result.den

C3_Witness ==
    /\ \E call \in Calls :
          /\ Cardinality(RefDeclIds(call.arg)) >= 2
          /\ call.result.num > 0
          /\ call.result.num
                # RefTotal(call.arg, columns, weights) * call.result.den
    /\ \E call \in Calls :
          /\ Len(call.arg) > 0
          /\ RefDeclIds(call.arg) = {}
          /\ call.result.num = 0

AllPositive(w) ==
    /\ w.lane_weight > 0 /\ w.spec_weight > 0 /\ w.requirement_weight > 0
    /\ w.exemption_weight > 0 /\ w.fta_weight > 0
    /\ w.transaction_weight > 0 /\ w.trader_weight > 0

Tables == <<author_df, importer_df, forwarder_df>>

\* C4: with seven positive weights every declaration's score, every score
\* returned by the scorer and every score stored in an EntitySummary is >= 0.
C4_NonNegative ==
    AllPositive(weights) =>
        /\ \A call \in Calls :
              /\ \A k \in 1..Len(call.scores) : call.scores[k] >= 0
              /\ call.result.num >= 0 /\ call.result.den > 0
        /\ \A t \in 1..3 : \A k \in 1..Len(Tables[t]) :
              Tables[t][k].complexity_score >= 0

C4_Witness ==
    /\ AllPositive(weights)
    /\ \E call \in Calls : \E k \in 1..Len(call.scores) : call.scores[k] > 0
    /\ pc = "forwarder_done"
    /\ \A t \in 1..3 : \E k \in 1..Len(Tables[t]) :
          Tables[t][k].complexity_score > 0

KeyColumns == <<"author", "importer", "forwarder">>

\* the rows of the entity `key` of a rollup over column c
RefEntityRows(c, key) ==
    SelectSeq(df, LAMBDA r : r[c] = key)

\* C5: grouping yields exactly one Declaration per distinct non-null
\* declaration number: in the scorer and as the distinct-declaration count
\* of every row of every rollup.
C5_OnePerDeclaration ==
    /\ \A call \in Calls :
          /\ Len(call.decl_grouped) = Cardinality(RefDeclIds(call.data))
          /\ {call.decl_grouped[k].decl_no : k \in 1..Len(call.decl_grouped)}
                = RefDeclIds(call.data)
          /\ Len(call.scores) = Len(call.decl_grouped)
    /\ \A t \in 1..3 : \A k \in 1..Len(Tables[t]) :
          Tables[t][k].unique_declarations =
              Cardinality(RefDeclIds(
                  RefEntityRows(KeyColumns[t], Tables[t][k].key)))

C5_Witness ==
    /\ pc = "forwarder_done"
    /\ \E call \in Calls :
          /\ Len(call.decl_grouped) = 2
          /\ Len(call.arg) = 3
    /\ \E k \in 1..Len(author_df) :
          /\ author_df[k].unique_declarations = 1
          /\ author_df[k].total_items = 2

(***************************************************************************)
(* Reference definitions for the run-length value-count tables.            *)
(***************************************************************************)
\* the number of declarations with exactly r line rows in a table
RefWithRows(entries, r) ==
    SumFn([i \in {j \in 1..Len(entries) : entries[j].rows = r} |->
              entries[i].decls])

RefAll(entries) ==
    SumFn([i \in 1..Len(entries) |-> entries[i].decls])

RowCounts == {vc_in[i].rows : i \in 1..Len(vc_in)}
                \cup {vc_kept[i].rows : i \in 1..Len(vc_kept)}

\* C6: with more than 5000 distinct declarations exactly 5000 are scored,
\* those with the most line rows (no declaration left out has more rows
\* than a declaration kept); with 5000 or fewer every declaration is
\* scored.
C6_ScaleGuard ==
    pc = "capped" =>
        /\ \A r \in RowCounts :
              RefWithRows(vc_kept, r) <= RefWithRows(vc_in, r)
        /\ RefAll(vc_in) > 5000 =>
              /\ RefAll(vc_kept) = 5000
              /\ \A r, q \in RowCounts :
                    (/\ RefWithRows(vc_kept, r) < RefWithRows(vc_in, r)
                     /\ RefWithRows(vc_kept, q) > 0) => r <= q
        /\ RefAll(vc_in) <= 5000 =>
              \A r \in RowCounts :
                  RefWithRows(vc_kept, r) = RefWithRows(vc_in, r)

C6_Witness ==
    /\ pc = "capped"
    /\ RefAll(vc_in) > 5000
    /\ RefAll(vc_kept) = 5000
    /\ \E r \in RowCounts :
          /\ 0 < RefWithRows(vc_kept, r)
          /\ RefWithRows(vc_kept, r) < RefWithRows(vc_in, r)
    /\ \E r \in RowCounts : RefWithRows(vc_kept, r) = 0

(***************************************************************************)
(* Reference definitions for the date normalizer: what each raw value of   *)
(* the inputs is, by table.                                                *)
(***************************************************************************)
RefDate(v) ==
    IF v = Some(D20250721) THEN Some([y |-> 2025, m |-> 7, d |-> 21])
    ELSE IF v = Some(DHyphen22) THEN Some([y |-> 2025, m |-> 7, d |-> 22])
    ELSE IF v = Some(DHyphen23) THEN Some([y |-> 2025, m |-> 7, d |-> 23])
    ELSE IF v = Some(DSlash26) THEN Some([y |-> 2025, m |-> 7, d |-> 26])
    ELSE IF v = Some(D20250725) THEN Some([y |-> 2025, m |-> 7, d |-> 25])
    ELSE NULL

RefWeekday(v) ==
    IF v = Some(D20250721) THEN Some("Mon")
    ELSE IF v = Some(DHyphen22) THEN Some("Tue")
    ELSE IF v = Some(DHyphen23) THEN Some("Wed")
    ELSE IF v = Some(DSlash26) THEN Some("Sat")
    ELSE IF v = Some(D20250725) THEN Some("Fri")
    ELSE NULL

\* column c is present and has at least one parseable value
RefHasParseable(c) ==
    /\ c \in src_columns
    /\ \E i \in 1..Len(src_df) : RefDate(src_df[i][c]) # NULL

\* the highest-priority column with a parseable value, "none" without one
RefSelection ==
    IF RefHasParseable("accept_date") THEN "accept_date"
    ELSE IF RefHasParseable("decl_date") THEN "decl_date"
    ELSE IF RefHasParseable("entry_ts") THEN "entry_ts"
    ELSE "none"

Normalized == pc \notin {"new", "cap_new", "capped", "failed"}

\* C7: first success wins.  An acceptance-date column with at least one
\* parseable value is selected whatever the other columns hold; a
\* lower-priority column is selected only when every higher-priority column
\* has no parseable value.
C7_FirstSuccessWins ==
    /\ (pc # "new" /\ RefHasParseable("accept_date")) =>
          /\ pc # "failed"
          /\ selected = "accept_date"
          /\ \A i \in 1..Len(df) :
                df[i].date_basis = RefDate(src_df[i].accept_date)
    /\ Normalized =>
          /\ selected = "decl_date" =>
                /\ ~RefHasParseable("accept_date")
                /\ RefHasParseable("decl_date")
          /\ selected = "entry_ts" =>
                /\ ~RefHasParseable("accept_date")
                /\ ~RefHasParseable("decl_date")
                /\ RefHasParseable("entry_ts")

\* one parseable acceptance date among nulls, declared dates all parseable
C7_Witness ==
    /\ pc = "ready"
    /\ selected = "accept_date"
    /\ Len(src_df) >= 2
    /\ Cardinality({i \in 1..Len(src_df) :
                       RefDate(src_df[i].accept_date) # NULL}) = 1
    /\ \A i \in 1..Len(src_df) :
          \/ src_df[i].accept_date = NULL
          \/ RefDate(src_df[i].accept_date) # NULL
    /\ "decl_date" \in src_columns
    /\ \A i \in 1..Len(src_df) : RefDate(src_df[i].decl_date) # NULL

\* C8: whichever of the three candidate columns are present, normalization
\* completes without error and selects the highest-priority present column
\* with a parseable value.
C8_AnyColumnSubset ==
    pc \notin {"new", "cap_new", "capped"} =>
        /\ pc # "failed"
        /\ selected = RefSelection

RefWeekdayCountsZero ==
    \A t \in 1..3 : \A k \in 1..Len(Tables[t]) :
        \A j \in 1..5 : Tables[t][k].weekdays[j] = 0

\* C9: when no candidate column has a parseable value, no error is raised,
\* the canonical date is unset and the weekday null on every row, and every
\* rollup table has all Monday-Friday counts 0.
C9_NoDate ==
    (pc \notin {"new", "cap_new", "capped"} /\ RefSelection = "none") =>
        /\ pc # "failed"
        /\ "date_basis" \notin columns
        /\ \A i \in 1..Len(df) :
              df[i].date_basis = NULL /\ df[i].weekday = NULL
        /\ RefWeekdayCountsZero

GroupingColumns == {"author", "importer", "forwarder", "cs"}

\* the positions of the run at which table t (1 author, 2 importer,
\* 3 forwarder, 4 inspection) has been returned
Returned(t) ==
    pc \in CASE t = 1 -> {"author_done", "importer_done", "forwarder_done",
                          "cs_done"}
             [] t = 2 -> {"importer_done", "forwarder_done", "cs_done"}
             [] t = 3 -> {"forwarder_done", "cs_done"}
             [] t = 4 -> {"cs_done"}

Started == pc \in {"ready", "failed", "author_done", "importer_done",
                   "forwarder_done", "cs_done"}

\* the valid entities of grouping column c: neither null nor empty
RefKeys(c) == {src_df[i][c] : i \in 1..Len(src_df)} \ {NULL, Some("")}

TableKeys(t) == {Tables[t][k].key : k \in 1..Len(Tables[t])}

\* C11: when a grouping column is absent, no analysis raises, that
\* dimension's table is empty and each other rollup still returns its table
\* (one row per valid entity of its own column).
C11_AbsentGroupingColumn ==
    (Started /\ GroupingColumns \ src_columns # {}) =>
        /\ pc # "failed"
        /\ \A t \in 1..3 :
              Returned(t) =>
                 /\ KeyColumns[t] \notin src_columns => Tables[t] = << >>
                 /\ TableKeys(t) = RefKeys(KeyColumns[t])
        /\ (Returned(4) /\ "cs" \notin src_columns) => cs_df = << >>

\* C12: below the entity cap each rollup returns exactly one row per
\* distinct grouping-key value that is neither null nor empty, and no row
\* with a null or empty key.
C12_OneRowPerEntity ==
    \A t \in 1..3 :
        /\ \A k \in 1..Len(Tables[t]) :
              /\ Tables[t][k].key # NULL
              /\ Tables[t][k].key # Some("")
        /\ Returned(t) =>
              /\ TableKeys(t) = RefKeys(KeyColumns[t])
              /\ Len(Tables[t]) = Cardinality(RefKeys(KeyColumns[t]))

C12_Witness ==
    /\ pc = "cs_done"
    /\ \E i \in 1..Len(src_df) : src_df[i].author = Some("")
    /\ \E i \in 1..Len(src_df) : src_df[i].importer = Some("")
    /\ \E i \in 1..Len(src_df) : src_df[i].forwarder = NULL
    /\ Len(author_df) = 1
    /\ Len(importer_df) = 2
    /\ Len(forwarder_df) = 2

\* the first valid entity of column c in row order
RefFirstKey(c) ==
    src_df[MinOf({i \in 1..Len(src_df) :
                     src_df[i][c] \notin {NULL, Some("")}})][c]

\* C14: the author table is in non-increasing order of complexity score,
\* the importer and forwarder tables in non-increasing order of row count.
C14_SortOrder ==
    /\ \A k \in 1..(Len(author_df) - 1) :
          author_df[k].complexity_score >= author_df[k + 1].complexity_score
    /\ \A k \in 1..(Len(importer_df) - 1) :
          importer_df[k].total_items >= importer_df[k + 1].total_items
    /\ \A k \in 1..(Len(forwarder_df) - 1) :
          forwarder_df[k].total_items >= forwarder_df[k + 1].total_items

\* the author and the importer met first are not the first rows
C14_Witness ==
    /\ pc = "cs_done"
    /\ Len(author_df) = 2
    /\ author_df[1].complexity_score > author_df[2].complexity_score
    /\ author_df[1].key # RefFirstKey("author")
    /\ Len(importer_df) = 2
    /\ importer_df[1].total_items > importer_df[2].total_items
    /\ importer_df[1].key # RefFirstKey("importer")
    /\ Len(forwarder_df) >= 1

\* the cap the claim gives for the dimension whose entities were capped
RefCap ==
    CASE pc = "authors_capped" -> 50
      [] pc = "importers_capped" -> 100
      [] pc = "forwarders_capped" -> 50

\* C13: with more distinct valid entities than the cap (50 preparers,
\* 100 importers, 50 forwarders) exactly cap-many entities are output, no
\* entity left out has more rows than an entity kept, and the others are
\* absent; at or below the cap no entity is omitted.
C13_EntityCap ==
    pc \in {"authors_capped", "importers_capped", "forwarders_capped"} =>
        /\ \A r \in RowCounts :
              RefWithRows(vc_kept, r) <= RefWithRows(vc_in, r)
        /\ RefAll(vc_in) > RefCap =>
              /\ RefAll(vc_kept) = RefCap
              /\ \A r, q \in RowCounts :
                    (/\ RefWithRows(vc_kept, r) < RefWithRows(vc_in, r)
                     /\ RefWithRows(vc_kept, q) > 0) => r <= q
        /\ RefAll(vc_in) <= RefCap =>
              \A r \in RowCounts :
                  RefWithRows(vc_kept, r) = RefWithRows(vc_in, r)

\* 101 importers with one row and 51 with two: the 51 and 49 of the 101
C13_Witness ==
    /\ pc = "importers_capped"
    /\ RefAll(vc_in) = 152
    /\ RefAll(vc_kept) = 100
    /\ RefWithRows(vc_kept, 2) = 51
    /\ RefWithRows(vc_kept, 1) = 49

\* the line rows (indices of src_df) of the entity `key` of column c
RefEntityLines(c, key) == {i \in 1..Len(src_df) : src_df[i][c] = key}

\* the declarations of a set of line rows
RefDeclsOf(I) == {src_df[i].decl_no : i \in I} \ {NULL}

\* the lines of declaration id among the lines I
RefDeclLines(I, id) == {i \in I : src_df[i].decl_no = id}

\* the preparer of a Declaration of an entity: take-first over its lines
RefPreparer(I, id) == RefFirst(src_df, RefDeclLines(I, id), "author")

\* the number of the entity's Declarations that preparer a occurs on
RefPreparerCount(I, a) ==
    Cardinality({id \in RefDeclsOf(I) : RefPreparer(I, id) = a})

RefPreparers(I) == {RefPreparer(I, id) : id \in RefDeclsOf(I)} \ {NULL}

\* the primary preparer and the preparer diversity of one table row
RefPrimaryPreparerOk(row, I) ==
    /\ row.author_diversity = Cardinality(RefPreparers(I))
    /\ RefPreparers(I) # {} =>
          /\ row.main_author \in RefPreparers(I)
          /\ \A a \in RefPreparers(I) :
                RefPreparerCount(I, row.main_author)
                    >= RefPreparerCount(I, a)

\* C15: in the importer and forwarder tables the primary preparer is a
\* preparer occurring on the most Declarations of the entity (each
\* declaration counted once) and the preparer diversity is the number of
\* distinct preparers over those Declarations.
C15_PrimaryPreparer ==
    \A t \in {2, 3} : \A k \in 1..Len(Tables[t]) :
        RefPrimaryPreparerOk(Tables[t][k],
            RefEntityLines(KeyColumns[t], Tables[t][k].key))

\* the requirement column the indicator comes from
RefReqColumn ==
    IF "doc_name" \in columns THEN "doc_name"
    ELSE IF "doc_name_sp" \in columns THEN "doc_name_sp"
    ELSE IF "req_count" \in columns THEN "req_count"
    ELSE "none"

\* the count of the lines I with a non-null cell in field f
RefNonNull(data, I, f) == Cardinality({i \in I : data[i][f] # NULL})

\* the reductions of step 1 other than the requirement indicator
RefReducedOk(d, data, I) ==
    /\ d.lanes = RefFirst(data, I, "lanes")
    /\ d.specs = RefFirst(data, I, "specs")
    /\ d.exemption = RefFirst(data, I, "exemption")
    /\ d.fta = RefFirst(data, I, "fta")
    /\ d.txn = Some(RefDistinct(data, I, "txn"))
    /\ d.trader = Some(RefDistinct(data, I, "trader"))

\* C16 as stated: take-first for lane count, spec count, exemption code and
\* origin-certificate flag, count-of-distinct for transaction type and
\* trading partner, and count-of-non-null rows for the requirement
\* indicator, whichever alternative column supplies it.
C16_ReductionAsStated ==
    \A call \in Calls : \A k \in 1..Len(call.decl_grouped) :
        /\ RefReducedOk(call.decl_grouped[k], call.data,
               RefLines(call.data, call.decl_grouped[k].decl_no))
        /\ RefReqColumn # "none" =>
              call.decl_grouped[k].req =
                  Some(RefNonNull(call.data,
                      RefLines(call.data, call.decl_grouped[k].decl_no),
                      RefReqColumn))

\* C16 amended: as stated, except that an indicator supplied by the
\* requirement-count column is reduced by take-first of the stored count.
C16_Reduction ==
    \A call \in Calls : \A k \in 1..Len(call.decl_grouped) :
        /\ RefReducedOk(call.decl_grouped[k], call.data,
               RefLines(call.data, call.decl_grouped[k].decl_no))
        /\ RefReqColumn \in {"doc_name", "doc_name_sp"} =>
              call.decl_grouped[k].req =
                  Some(RefNonNull(call.data,
                      RefLines(call.data, call.decl_grouped[k].decl_no),
                      RefReqColumn))
        /\ RefReqColumn = "req_count" =>
              call.decl_grouped[k].req =
                  RefFirst(call.data,
                      RefLines(call.data, call.decl_grouped[k].decl_no),
                      "req_count")

\* a declaration of three lines whose stored requirement count is 2 on one
\* line and null on the others
C16_Witness ==
    /\ RefReqColumn = "req_count"
    /\ \E call \in Calls : \E k \in 1..Len(call.decl_grouped) :
          /\ Cardinality(RefLines(call.data,
                 call.decl_grouped[k].decl_no)) = 3
          /\ call.decl_grouped[k].req = Some(2)
          /\ call.decl_grouped[k].lanes = Some(10)
          /\ call.decl_grouped[k].txn = Some(2)
          /\ call.decl_grouped[k].trader = Some(3)

Abs(x) == IF x < 0 THEN -x ELSE x

\* `reported` (tenths of a percent) is count / n * 100 to the nearest tenth,
\* and 0 when n is 0
RefIsRate(reported, count, n) ==
    IF n = 0 THEN reported = 0
    ELSE 2 * Abs(reported * n - 1000 * count) <= n

\* the declarations among the lines I that bear a requirement indicator in
\* column c: a non-null document name on some line, or a stored count that
\* is non-null and positive
RefBearing(I, c) ==
    IF c \in {"doc_name", "doc_name_sp"}
    THEN Cardinality({id \in RefDeclsOf(I) :
             \E i \in RefDeclLines(I, id) : src_df[i][c] # NULL})
    ELSE IF c = "req_count"
    THEN Cardinality({id \in RefDeclsOf(I) :
             /\ RefFirst(src_df, RefDeclLines(I, id), "req_count") # NULL
             /\ RefFirst(src_df, RefDeclLines(I, id), "req_count")[1] > 0})
    ELSE 0

\* the requirement value of one Declaration read from column c
RefIndicator(data, I, c) ==
    IF c \in {"doc_name", "doc_name_sp"} THEN Some(RefNonNull(data, I, c))
    ELSE IF c = "req_count" THEN RefFirst(data, I, "req_count")
    ELSE NULL

\* C17: the requirement indicator comes from the first present of
\* doc_name, doc_name_sp, req_count, and the scorer, the author table's
\* requirement count and the importer table's requirement rate all read
\* that same column.
C17_SameRequirementColumn ==
    /\ \A call \in Calls : \A k \in 1..Len(call.decl_grouped) :
          call.decl_grouped[k].req =
              RefIndicator(call.data,
                  RefLines(call.data, call.decl_grouped[k].decl_no),
                  RefReqColumn)
    /\ \A k \in 1..Len(author_df) :
          author_df[k].requirement_count =
              RefBearing(RefEntityLines("author", author_df[k].key),
                         RefReqColumn)
    /\ \A k \in 1..Len(importer_df) :
          RefIsRate(importer_df[k].requirement_rate,
              RefBearing(RefEntityLines("importer", importer_df[k].key),
                         RefReqColumn),
              importer_df[k].unique_declarations)

\* the declarations among the lines I whose indicator in column c is
\* non-null
RefBearingNonNull(I, c) ==
    IF c \in {"doc_name", "doc_name_sp"}
    THEN Cardinality({id \in RefDeclsOf(I) :
             \E i \in RefDeclLines(I, id) : src_df[i][c] # NULL})
    ELSE IF c = "req_count"
    THEN Cardinality({id \in RefDeclsOf(I) :
             RefFirst(src_df, RefDeclLines(I, id), "req_count") # NULL})
    ELSE 0

\* C18 as stated: every row of every rollup table reports the
\* requirement-bearing declaration count, the number of the entity's
\* declarations with a non-null requirement indicator.
C18_RequirementCountAsStated ==
    \A t \in 1..3 : \A k \in 1..Len(Tables[t]) :
        /\ "requirement_count" \in DOMAIN Tables[t][k]
        /\ Tables[t][k].requirement_count =
              RefBearingNonNull(
                  RefEntityLines(KeyColumns[t], Tables[t][k].key),
                  RefReqColumn)

\* C18 amended: every row of the author table reports that count, a stored
\* requirement count bearing only when it is positive; the rows of the
\* importer and forwarder tables carry no such count.
C18_RequirementCount ==
    /\ \A k \in 1..Len(author_df) :
          /\ "requirement_count" \in DOMAIN author_df[k]
          /\ author_df[k].requirement_count =
                RefBearing(RefEntityLines("author", author_df[k].key),
                           RefReqColumn)
    /\ \A t \in {2, 3} : \A k \in 1..Len(Tables[t]) :
          "requirement_count" \notin DOMAIN Tables[t][k]

\* an author with two document lines on one declaration, and (in another
\* layout) an author whose stored count is 0
C18_Witness ==
    /\ pc = "cs_done"
    /\ Len(importer_df) > 0
    /\ Len(forwarder_df) > 0
    /\ \E k \in 1..Len(author_df) :
          \/ /\ RefReqColumn = "doc_name"
             /\ author_df[k].requirement_count = 1
             /\ Cardinality({i \in RefEntityLines("author", author_df[k].key) :
                                src_df[i].doc_name # NULL}) = 2
          \/ /\ RefReqColumn = "req_count"
             /\ author_df[k].requirement_count = 0
             /\ \E i \in RefEntityLines("author", author_df[k].key) :
                   src_df[i].req_count = Some(0)

\* the entity's declarations whose origin-certificate flag is 'Y'
RefFtaDecls(I) ==
    Cardinality({id \in RefDeclsOf(I) :
        RefFirst(src_df, RefDeclLines(I, id), "fta") = Some("Y")})

\* the entity's declarations with a non-empty (non-blank) exemption code
RefExemptDecls(I) ==
    Cardinality({id \in RefDeclsOf(I) :
        RefHasExemption(src_df, RefDeclLines(I, id))})

\* C19 as stated: the FTA rate and the exemption rate are exactly
\* count / distinct declarations * 100, and 0 without declarations.
C19_RatesAsStated ==
    \A t \in 1..3 : \A k \in 1..Len(Tables[t]) :
        /\ Tables[t][k].fta_rate
              * Cardinality(RefDeclsOf(
                    RefEntityLines(KeyColumns[t], Tables[t][k].key)))
              = 1000 * RefFtaDecls(
                    RefEntityLines(KeyColumns[t], Tables[t][k].key))
        /\ Tables[t][k].exemption_rate
              * Cardinality(RefDeclsOf(
                    RefEntityLines(KeyColumns[t], Tables[t][k].key)))
              = 1000 * RefExemptDecls(
                    RefEntityLines(KeyColumns[t], Tables[t][k].key))
        /\ RefDeclsOf(RefEntityLines(KeyColumns[t], Tables[t][k].key)) = {}
              => /\ Tables[t][k].fta_rate = 0
                 /\ Tables[t][k].exemption_rate = 0

\* C19 amended: the two rates are those quotients rounded to one decimal
\* place, and 0 without declarations.
C19_Rates ==
    \A t \in 1..3 : \A k \in 1..Len(Tables[t]) :
        /\ RefIsRate(Tables[t][k].fta_rate,
              RefFtaDecls(RefEntityLines(KeyColumns[t], Tables[t][k].key)),
              Cardinality(RefDeclsOf(
                  RefEntityLines(KeyColumns[t], Tables[t][k].key))))
        /\ RefIsRate(Tables[t][k].exemption_rate,
              RefExemptDecls(RefEntityLines(KeyColumns[t], Tables[t][k].key)),
              Cardinality(RefDeclsOf(
                  RefEntityLines(KeyColumns[t], Tables[t][k].key))))

\* a forwarder with three declarations, one with flag 'Y' and one with an
\* exemption code: 33.3 each
C19_Witness ==
    /\ pc = "cs_done"
    /\ \E k \in 1..Len(forwarder_df) :
          /\ forwarder_df[k].unique_declarations = 3
          /\ forwarder_df[k].fta_rate = 333
          /\ forwarder_df[k].exemption_rate = 333
    /\ \E k \in 1..Len(author_df) : author_df[k].fta_rate = 1000
    /\ \E k \in 1..Len(importer_df) : importer_df[k].fta_rate = 500

\* the derived weekday of line i: that of its value in the canonical date
\* column
RefRowWeekday(i) ==
    IF RefSelection = "none" THEN NULL
    ELSE RefWeekday(src_df[i][RefSelection])

\* the entity's declarations with a line whose derived weekday is `day`
RefDeclsOn(I, day) ==
    RefDeclsOf({i \in I : RefRowWeekday(i) = Some(day)})

RefWeekdayNames == <<"Mon", "Tue", "Wed", "Thu", "Fri">>

RefCsLines == {i \in 1..Len(src_df) : src_df[i].cs # NULL}

\* the inspection code of declaration id: that of its first such line
RefCsCode(id) == src_df[MinOf(RefDeclLines(RefCsLines, id))].cs

\* the declarations counted under a code
RefCsDecls(code) ==
    {id \in RefDeclsOf(RefCsLines) : RefCsCode(id) = Some(code)}

\* the fixed lookup
RefCsLabel ==
    [Y |-> "customs", F |-> "joint", N |-> "none", C |-> "document",
     S |-> "sample"]

\* C21: the inspection table has one row per code held by a declaration
\* (a declaration's code being that of its first line row with a non-null
\* code), the row counts the declarations of its code and carries the label
\* of the fixed lookup, 'other' for any other code, and the rows are in
\* order of non-increasing count.
C21_InspectionTable ==
    (pc = "cs_done" /\ "cs" \in src_columns) =>
        /\ \A k, l \in 1..Len(cs_df) :
              cs_df[k].code = cs_df[l].code => k = l
        /\ {cs_df[k].code : k \in 1..Len(cs_df)}
              = {RefCsCode(id)[1] : id \in RefDeclsOf(RefCsLines)}
        /\ \A k \in 1..Len(cs_df) :
              /\ cs_df[k].count = Cardinality(RefCsDecls(cs_df[k].code))
              /\ cs_df[k].label =
                    IF cs_df[k].code \in DOMAIN RefCsLabel
                    THEN RefCsLabel[cs_df[k].code] ELSE "other"
        /\ \A k \in 1..(Len(cs_df) - 1) : cs_df[k].count >= cs_df[k + 1].count

\* two declarations without inspection ahead of one document inspection,
\* although groupby lists code 'C' before code 'N'
C21_Witness ==
    /\ pc = "cs_done"
    /\ Len(cs_df) = 2
    /\ cs_df[1].code = "N" /\ cs_df[1].count = 2
    /\ cs_df[2].code = "C" /\ cs_df[2].count = 1

\* the declarations the per-code sizes hold under a code, and in all
RefSizeOf(code) ==
    SumFn([i \in 1..Len(vc_in) |->
              IF vc_in[i].code = code THEN vc_in[i].count ELSE 0])

RefSizeTotal == SumFn([i \in 1..Len(vc_in) |-> vc_in[i].count])

\* the example of the specification: codes {Y:10, N:85, C:5}
RefCsExample ==
    /\ Len(vc_in) = 3
    /\ RefSizeOf("Y") = 10 /\ RefSizeOf("N") = 85 /\ RefSizeOf("C") = 5

\* the example gives 85.0 and the label of 'N'
RefCsExampleOk ==
    RefCsExample =>
        /\ cs_stats[1].no_inspection_rate = 850
        /\ cs_stats[1].top = RefCsLabel["N"]

\* C22 as stated: the no-inspection rate is exactly
\* (declarations with code 'N') / (total declarations) * 100, 0 when the
\* total is 0, and the example gives 85.0 and the label of 'N'.
C22_NoInspectionRateAsStated ==
    pc = "summarised" =>
        /\ cs_stats[1].no_inspection_rate * RefSizeTotal
              = 1000 * RefSizeOf("N")
        /\ RefSizeTotal = 0 => cs_stats[1].no_inspection_rate = 0
        /\ RefCsExampleOk

\* C22 amended: the no-inspection rate is that quotient rounded to one
\* decimal place, 0 when the total is 0, and the example gives 85.0 and the
\* label of 'N'.
C22_NoInspectionRate ==
    pc = "summarised" =>
        /\ RefIsRate(cs_stats[1].no_inspection_rate, RefSizeOf("N"),
                     RefSizeTotal)
        /\ RefSizeTotal = 0 => cs_stats[1].no_inspection_rate = 0
        /\ RefCsExampleOk

\* the summary of the example {Y:10, N:85, C:5}
C22_Witness ==
    /\ pc = "summarised"
    /\ RefCsExample
    /\ cs_stats[1].total = 100
    /\ cs_stats[1].no_inspection_rate = 850

(***************************************************************************)
(* Reference definitions for the column pruning.                           *)
(***************************************************************************)
\* the raw row count of the uploaded dataset
RefRawRows == Len(src_df) + src_blank

\* the fixed essential allowlist
RefAllowlist ==
    {"decl_no", "author", "importer", "forwarder", "trader", "decl_date",
     "accept_date", "entry_ts", "lanes", "specs", "req_count", "exemption",
     "fta", "txn", "cs", "doc_name_sp"}

\* the derived fields the normalizer appends
RefDerived == {"date_basis", "weekday"}

\* C23: above 20000 raw rows the analyzer keeps exactly the allowlisted
\* columns the source holds, whichever of them are absent, and proceeds;
\* at 20000 rows or fewer it drops no column.
C23_ColumnPruning ==
    Started =>
        /\ pc # "failed"
        /\ RefRawRows > 20000 =>
              columns \ RefDerived = src_columns \cap RefAllowlist
        /\ RefRawRows <= 20000 => columns \ RefDerived = src_columns
        /\ \A i \in 1..Len(df) :
              \A c \in (columns \ RefDerived) \cap DOMAIN df[i] :
                  df[i][c] = src_df[i][c]

\* a completed run on 20001 rows whose source lacks allowlisted columns
\* and holds columns outside the allowlist
C23_Witness ==
    /\ pc = "cs_done"
    /\ RefRawRows = 20001
    /\ RefAllowlist \ src_columns # {}
    /\ {"memo", "doc_name"} \subseteq src_columns \ columns
    /\ author_df # << >>

(***************************************************************************)
(* Reference definitions for the run of main.                              *)
(***************************************************************************)
RefTableNames == {"author", "importer", "forwarder", "inspection"}

\* the output tables on the page
RefShown == Range(screen) \cap RefTableNames

\* loading, normalization and the four analyses have completed: the run
\* is past the try block, every rollup table holds its entities and the
\* inspection statistics exist
RefRunCompleted ==
    /\ pc \in {"cs_done", "shown", "no_data"}
    /\ \A t \in 1..3 :
          KeyColumns[t] \in src_columns =>
              TableKeys(t) = RefKeys(KeyColumns[t])
    /\ "cs" \in src_columns => cs_stats # NULL

\* C24: an output table is on the page only when loading, normalization
\* and all four analyses have completed; a run that failed at any of these
\* steps reports one error and shows no table.
C24_AllOrNothing ==
    /\ RefShown # {} => RefRunCompleted
    /\ pc = "failed" => screen = << >>
    /\ pc = "reported" => screen = <<"error">>
    /\ "error" \in Range(screen) => pc = "reported"
    /\ RefRunCompleted => "error" \notin Range(screen)

\* a run that failed in the importer analysis, after normalization and
\* the preparer analysis: one error on the page and no table
C24_Witness ==
    /\ pc = "reported"
    /\ df # << >>
    /\ "author" \notin src_columns
    /\ screen = <<"error">>

(***************************************************************************)
(* Reference definitions for the weights.                                  *)
(***************************************************************************)
\* the seven defaults, in tenths: 1.0, 0.5, 10.0, 10.0, 10.0, 5.0, 5.0
RefDefaults ==
    [lane_weight |-> 10, spec_weight |-> 5, requirement_weight |-> 100,
     exemption_weight |-> 100, fta_weight |-> 100,
     transaction_weight |-> 50, trader_weight |-> 50]

\* the weights at construction
RefConstructedWeights ==
    IF src_weights = NULL THEN RefDefaults ELSE src_weights[1]

\* the updates so far that name coefficient k
RefSetters(k) == {j \in 1..Len(weight_log) : k \in DOMAIN weight_log[j]}

\* last write wins; a coefficient no update names keeps its value
RefCoefficient(k) ==
    IF RefSetters(k) = {} THEN RefConstructedWeights[k]
    ELSE weight_log[CHOOSE j \in RefSetters(k) :
                        \A i \in RefSetters(k) : i <= j][k]

\* C25: the analyzer starts from the seven defaults when no weights are
\* given, and after any sequence of update_weights calls every coefficient,
\* and every score the next scoring calls compute, is that of the last
\* update naming the coefficient, or the previous value when none names it.
C25_LastWriteWins ==
    pc \in {"ready", "author_done", "importer_done", "forwarder_done",
            "cs_done"} =>
        /\ \A k \in DOMAIN RefDefaults : weights[k] = RefCoefficient(k)
        /\ \A call \in Calls : \A k \in 1..Len(call.scores) :
              call.scores[k] =
                  RefScore(call.arg,
                           RefLines(call.arg, call.decl_grouped[k].decl_no),
                           columns,
                           [c \in DOMAIN RefDefaults |-> RefCoefficient(c)])

\* scores computed after two updates of the lane coefficient, on an
\* analyzer constructed without weights
C25_Witness ==
    /\ pc = "author_done"
    /\ src_weights = NULL
    /\ Len(weight_log) = 2
    /\ weight_log[1] = [k \in {"lane_weight", "fta_weight"} |-> 40]
    /\ weight_log[2] = [k \in {"lane_weight"} |-> 20]
    /\ weights.lane_weight = 20 /\ weights.fta_weight = 40
    /\ weights.spec_weight = 5
    /\ Calls # {}

(***************************************************************************)
(* Reference definitions for the frame effects of the analyses.            *)
(***************************************************************************)
\* the analyses invoked so far
RefCalled == Range(call_log)

\* a fresh analyzer on the same dataset and weights
RefFresh == Constructed(src_df, src_blank, src_columns)

\* C26: the rows the engine holds carry the source value in every source
\* field and differ from it only in the derived date and weekday fields,
\* and the table an analysis returned is the table it returns on a fresh
\* analyzer, whichever analyses ran before it and however often.
C26_NoCrossTalk ==
    pc = "ready" =>
        /\ Len(df) = Len(src_df)
        /\ \A i \in 1..Len(df) : \A c \in DOMAIN df[i] \ RefDerived :
              df[i][c] = src_df[i][c]
        /\ "author" \in RefCalled =>
              author_df = analyze_by_author(RefFresh.df, RefFresh.columns,
                                            RefConstructedWeights)
        /\ "importer" \in RefCalled =>
              importer_df = analyze_by_importer(RefFresh.df, RefFresh.columns,
                                                RefConstructedWeights)
        /\ "forwarder" \in RefCalled =>
              forwarder_df = analyze_by_forwarder(RefFresh.df,
                                 RefFresh.columns, RefConstructedWeights)
        /\ "inspection" \in RefCalled =>
              /\ cs_df = analyze_cs_inspection(RefFresh.df,
                                               RefFresh.columns).table
              /\ cs_stats = analyze_cs_inspection(RefFresh.df,
                                                  RefFresh.columns).stats

\* the importer analysis after the preparer analysis ran twice, on a
\* dataset in which the preparer analysis skips a row
C26_Witness ==
    /\ pc = "ready"
    /\ call_log = <<"author", "author", "importer">>
    /\ \E i \in 1..Len(src_df) : src_df[i].author = Some("")
    /\ author_df # << >>
    /\ importer_df # << >>

\* the analyzer's frame had the column pruning not been applied
RefUnpruned == prepare_data(src_df, src_columns)

\* C27: the four output tables of a run with column pruning applied are
\* those the same rows give without it.
C27_PruningPreservesTables ==
    (pc = "cs_done" /\ RefRawRows > 20000) =>
        /\ author_df = analyze_by_author(RefUnpruned.df, RefUnpruned.columns,
                                         weights)
        /\ importer_df = analyze_by_importer(RefUnpruned.df,
                              RefUnpruned.columns, weights)
        /\ forwarder_df = analyze_by_forwarder(RefUnpruned.df,
                              RefUnpruned.columns, weights)
        /\ cs_df = analyze_cs_inspection(RefUnpruned.df,
                                         RefUnpruned.columns).table

(***************************************************************************)
(* Reference definitions for the sidebar.                                  *)
(***************************************************************************)
\* an analysis run is under way or has ended
RefInRun == pc \in {"new", "ready", "author_done", "importer_done",
                    "forwarder_done", "cs_done", "failed"}

\* C28: in every analysis run the seven weights passed to the analyzer,
\* and those the analyzer then holds, are the seven values the weight
\* inputs show.
C28_WeightsAsShown ==
    /\ RefInRun => src_weights = Some(session_state.inputs)
    /\ (RefInRun /\ pc \notin {"new", "failed"}) =>
          weights = session_state.inputs

\* C29: in every row of every rollup table the Monday to Friday counts sum
\* to at most the entity's distinct declaration count.
C29_WeekdaySum ==
    \A t \in 1..3 : \A k \in 1..Len(Tables[t]) :
        Tables[t][k].weekdays[1] + Tables[t][k].weekdays[2]
            + Tables[t][k].weekdays[3] + Tables[t][k].weekdays[4]
            + Tables[t][k].weekdays[5]
            <= Cardinality(RefDeclsOf(
                   RefEntityLines(KeyColumns[t], Tables[t][k].key)))

\* C30: in every result of the inspection classifier the per-code counts
\* sum to the total-declarations statistic, the distinct-code-count
\* statistic is the number of table rows, and the no-inspection rate lies
\* between 0 and 100.
C30_InspectionStats ==
    (pc = "cs_done" /\ cs_stats # NULL) =>
        /\ SumFn([k \in 1..Len(cs_df) |-> cs_df[k].count])
              = cs_stats[1].total
        /\ cs_stats[1].kinds = Len(cs_df)
        /\ cs_stats[1].no_inspection_rate >= 0
        /\ cs_stats[1].no_inspection_rate <= 1000

\* three declarations under two codes, two of them without inspection
C30_Witness ==
    /\ pc = "cs_done"
    /\ cs_stats # NULL
    /\ cs_stats[1].total = 3
    /\ cs_stats[1].kinds = 2
    /\ cs_stats[1].no_inspection_rate = 667

=============================================================================
